---- MODULE Spec2Model ----
(***************************************************************************)
(* A model of nakari's ReAct loop (src/nakari/agent/loop.py): the message  *)
(* sequence, the bounded Reasoning/Acting cycle of run_react_loop, the     *)
(* tool dispatcher _execute_tool with its collaborators, the result        *)
(* normaliser _json_serializable and the step notifier _emit_step.         *)
(*                                                                         *)
(* Python values are tagged records [k, a, c]: k is the Python type, a the *)
(* text of an atom (its str()/isoformat()/JSON number), c the children (a  *)
(* sequence of values for list/tuple, of <<key, value>> pairs for dict and *)
(* Record; a key that is no str is <<text, value, type of the key>>).      *)
(* String atoms hold no double quote or backslash, so JSON text needs no   *)
(* escaping.                                                               *)
(***************************************************************************)
EXTENDS Naturals, Sequences, FiniteSets, TLC

VARIABLES
    history,        \* the caller's history list (argument of run_react_loop)
    user_message,   \* the user_message argument
    options,        \* LoopOptions: [search, on_step]
    pc,             \* position of the run in run_react_loop
    iteration,      \* the for-loop variable of line 131 (rounds completed)
    messages,       \* the local list `messages`
    message,        \* the message of the last model response: [content, tool_calls]
    tc,             \* index into tool_calls of the invocation being processed
    arguments,      \* the parsed `arguments` of the current invocation
    result,         \* the `result` of the current dispatch
    final_content,  \* the text returned to the caller
    raised,         \* "" while no exception has left run_react_loop, else its origin
                    \* ("model", "notifier", "serialise")
    steps,          \* every LoopStep handed to _emit_step, in order
    notified,       \* every LoopStep handed to options.on_step, in order
    model_calls,    \* every chat.completions.create call: [tools, n_messages]
    dispatches,     \* every _execute_tool call: the invocation's id, name and payload, the
                    \* arguments passed, the collaborator's outcome, the calls made
                    \* to collaborators, whether it raised, and its result
    varied,         \* whether the model has given its one non-default tool round
    other,          \* the suspended run, when two runs share the event loop
    current,        \* which of the runs the other variables describe (1 or 2)
    store           \* the labels of the nodes the memory database holds

vars == <<history, user_message, options, pc, iteration, messages, message, tc,
          arguments, result, final_content, raised, steps, notified, model_calls,
          dispatches, varied, other, current, store>>

-----------------------------------------------------------------------------
(* Bounds of the model and constants of the program.                       *)

\* Tool invocations the model may put in one response.
MaxCalls == 2

MAX_ITERATIONS == 10

-----------------------------------------------------------------------------
(* Python values.                                                          *)

NoneV == [k |-> "None", a |-> "None", c |-> <<>>]
Str(s) == [k |-> "str", a |-> s, c |-> <<>>]
Int(s) == [k |-> "int", a |-> s, c |-> <<>>]
Dict(items) == [k |-> "dict", a |-> "", c |-> items]
List(elems) == [k |-> "list", a |-> "", c |-> elems]
Tuple(elems) == [k |-> "tuple", a |-> "", c |-> elems]

IsPrimitive(v) == v.k \in {"None", "bool", "int", "float", "str"}

\* dict.get(key) without a default: None for a missing key.
DictGet_NoDefault(items, key, default) ==
    IF \E i \in 1..Len(items) : items[i][1] = key
    THEN items[CHOOSE i \in 1..Len(items) :
                   /\ items[i][1] = key
                   /\ \A k \in (i + 1)..Len(items) : items[k][1] # key][2]
    ELSE NoneV

\* dict.get(key, default): the value of the last item stored under key.
RECURSIVE DictGet(_, _, _)
DictGet(items, key, default) ==
    IF items = <<>> THEN default
    ELSE IF items[Len(items)][1] = key THEN items[Len(items)][2]
    ELSE DictGet(SubSeq(items, 1, Len(items) - 1), key, default)

\* The content taken as it is, without `or ""`.
OrEmpty_NoDefault(v) == v.a

\* `x or ""` for an optional text (lines 151 and 200).
OrEmpty(v) == IF v.k = "None" \/ v.a = "" THEN "" ELSE v.a

\* _json_serializable that converts the outer value only.
JsonSerializable_Shallow(obj) ==
    IF IsPrimitive(obj) THEN obj
    ELSE IF obj.k \in {"Record", "dict"} THEN Dict(obj.c)
    ELSE IF obj.k \in {"list", "tuple"} THEN List(obj.c)
    ELSE Str(obj.a)

\* _json_serializable (lines 24-55), the tests in the order of the code; the
\* keys of a dict or Record are kept as they are.
RECURSIVE JsonSerializable(_)
JsonSerializable(obj) ==
    IF IsPrimitive(obj) THEN obj
    ELSE IF obj.k = "Record"
        THEN Dict([i \in 1..Len(obj.c) |-> [obj.c[i] EXCEPT ![2] = JsonSerializable(@)]])
    ELSE IF obj.k = "neo4j" THEN Str(obj.a)
    ELSE IF obj.k \in {"date", "time", "datetime"} THEN Str(obj.a)
    ELSE IF obj.k = "dict"
        THEN Dict([i \in 1..Len(obj.c) |-> [obj.c[i] EXCEPT ![2] = JsonSerializable(@)]])
    ELSE IF obj.k = "list" THEN List([i \in 1..Len(obj.c) |-> JsonSerializable(obj.c[i])])
    ELSE IF obj.k = "tuple" THEN List([i \in 1..Len(obj.c) |-> JsonSerializable(obj.c[i])])
    ELSE Str(obj.a)

\* The type of the key of a dict item.
KeyType(item) == IF Len(item) = 3 THEN item[3] ELSE "str"

\* json.dumps raises TypeError ("keys must be str, int, float, bool or None")
\* on a dict key of any other type.
RECURSIVE JsonDumpsRaises(_)
JsonDumpsRaises(v) ==
    \/ /\ v.k = "dict"
       /\ \E i \in 1..Len(v.c) :
             \/ KeyType(v.c[i]) \notin {"str", "int", "float", "bool", "None"}
             \/ JsonDumpsRaises(v.c[i][2])
    \/ /\ v.k = "list"
       /\ \E i \in 1..Len(v.c) : JsonDumpsRaises(v.c[i])

\* json.dumps(v, ensure_ascii=False) of a normalised value, with the default
\* separators ", " and ": ".
RECURSIVE JsonDumps(_)
RECURSIVE DumpItems(_, _)
RECURSIVE DumpElems(_, _)
JsonDumps(v) ==
    CASE v.k = "None" -> "null"
      [] v.k \in {"bool", "int", "float"} -> v.a
      [] v.k = "str" -> "\"" \o v.a \o "\""
      [] v.k = "dict" -> "{" \o DumpItems(v.c, 1) \o "}"
      [] v.k = "list" -> "[" \o DumpElems(v.c, 1) \o "]"
DumpItems(items, i) ==
    IF i > Len(items) THEN ""
    ELSE (IF i > 1 THEN ", " ELSE "")
         \o "\"" \o items[i][1] \o "\": " \o JsonDumps(items[i][2])
         \o DumpItems(items, i + 1)
DumpElems(elems, i) ==
    IF i > Len(elems) THEN ""
    ELSE (IF i > 1 THEN ", " ELSE "") \o JsonDumps(elems[i]) \o DumpElems(elems, i + 1)

-----------------------------------------------------------------------------
(* The argument payload of a tool invocation (lines 158-162).              *)

\* A payload naming every key a tool reads.
ObjPayload ==
    "{\"cypher\": \"RETURN 1\", \"params\": {\"n\": 1}, \"text\": \"hi\", "
    \o "\"query\": \"q\", \"num_results\": 3, \"type\": \"news\"}"

\* A payload whose cypher text is a writing statement.
WritePayload == "{\"cypher\": \"MERGE (n:Fact)\", \"params\": {}}"

WriteArguments == Dict(<< <<"cypher", Str("MERGE (n:Fact)")>>, <<"params", Dict(<<>>)>> >>)

ObjArguments ==
    Dict(<< <<"cypher", Str("RETURN 1")>>, <<"params", Dict(<< <<"n", Int("1")>> >>)>>,
            <<"text", Str("hi")>>, <<"query", Str("q")>>,
            <<"num_results", Int("3")>>, <<"type", Str("news")>> >>)

\* The payloads the model returns: empty, malformed, objects, and well-formed
\* JSON that is not an object.
ArgPayloads == {"", "{", "{}", ObjPayload, WritePayload, "[]", "null"}

\* The outcome of evaluating Python code: a value, or an exception with its
\* str(); `calls` are the collaborator operations called on the way.
Ok(v, calls) == [exc |-> FALSE, value |-> v, message |-> "", calls |-> calls]
Exc(msg, calls) == [exc |-> TRUE, value |-> NoneV, message |-> msg, calls |-> calls]

\* json.loads: [ok, v]; ok = FALSE stands for json.JSONDecodeError.
JsonLoads(s) ==
    CASE s = "{}" -> [ok |-> TRUE, v |-> Dict(<<>>)]
      [] s = ObjPayload -> [ok |-> TRUE, v |-> ObjArguments]
      [] s = WritePayload -> [ok |-> TRUE, v |-> WriteArguments]
      [] s = "[]" -> [ok |-> TRUE, v |-> List(<<>>)]
      [] s = "null" -> [ok |-> TRUE, v |-> NoneV]
      [] OTHER -> [ok |-> FALSE, v |-> NoneV]

\* Lines 158-160 without the except clause: the decode error leaves the loop.
ParseArguments_NoCatch(args_json) ==
    IF args_json # ""
    THEN (IF JsonLoads(args_json).ok THEN Ok(JsonLoads(args_json).v, <<>>)
          ELSE Exc("Expecting property name enclosed in double quotes", <<>>))
    ELSE Ok(Dict(<<>>), <<>>)

\* Lines 158-162: json.loads(args_json) if args_json else {}, and {} on a
\* JSONDecodeError.
ParseArguments(args_json) ==
    IF args_json # ""
    THEN (IF JsonLoads(args_json).ok THEN Ok(JsonLoads(args_json).v, <<>>)
          ELSE Ok(Dict(<<>>), <<>>))
    ELSE Ok(Dict(<<>>), <<>>)

-----------------------------------------------------------------------------
(* The collaborators: what one call of an operation may do.                *)

Return(v) == [kind |-> "return", value |-> v, message |-> ""]
Raise(msg) == [kind |-> "raise", value |-> NoneV, message |-> msg]
NoOutcome == Return(NoneV)

\* The labels the memory database holds before the first run.
InitialStore == {"Person"}

\* A record holding a temporal value, a tuple and an object of an unrecognised type.
RichRecord ==
    Dict(<< <<"since", [k |-> "date", a |-> "2024-01-02", c |-> <<>>]>>,
            <<"pair", Tuple(<<Int("1"), Str("a")>>)>>,
            <<"other", [k |-> "Decimal", a |-> "1.5", c |-> <<>>]>> >>)

\* A record keyed by a tuple: {(1, 2): "x"}.
TupleKeyedRecord == Dict(<< <<"(1, 2)", Str("x"), "tuple">> >>)

\* options.memory.query (line 225): {"records": [...]} or it raises.  MemoryClient.query
\* (memory/__init__.py 27-42) returns records keyed by column name; the dispatcher
\* returns whatever the collaborator it is given returns.
MemoryQueryOutcomes ==
    { Return(Dict(<< <<"records", List(<< Dict(<< <<"n", Int("1")>> >>) >>)>> >>)),
      Return(Dict(<< <<"records", List(<<RichRecord>>)>> >>)),
      Return(Dict(<< <<"records", List(<<TupleKeyedRecord>>)>> >>)),
      Raise("Connection refused") }

\* MemoryClient.write (memory/__init__.py 44-67): {"stats": {...}} or the driver raises.
MemoryWriteOutcomes ==
    { Return(Dict(<< <<"stats", Dict(<< <<"nodesCreated", Int("1")>> >>)>> >>)),
      Raise("Connection refused") }

\* MemoryClient.schema (memory/__init__.py 69-103).
MemorySchemaValue ==
    Dict(<< <<"labels", List(<<Str("Person")>>)>>,
            <<"relationshipTypes", List(<<>>)>>,
            <<"propertyKeys", List(<<Str("name")>>)>> >>)

MemorySchemaOutcomes == { Return(MemorySchemaValue), Raise("Connection refused") }

\* openai.embeddings.create (lines 267-270): response.data[0].embedding, or it raises.
EmbeddingOutcomes ==
    { Return(List(<< [k |-> "float", a |-> "0.5", c |-> <<>>] >>)),
      Raise("Embedding request failed") }

\* One item of SerperProvider._convert_response (providers.py 180-196): a plain dict.
SerperItem ==
    Dict(<< <<"title", Str("t")>>, <<"link", Str("l")>>, <<"snippet", Str("s")>> >>)

\* A SearchResult object (types.py 10-19), as a provider that builds them returns.
SearchResultObject ==
    [k |-> "SearchResult", a |-> "",
     c |-> << <<"title", Str("t")>>, <<"link", Str("l")>>, <<"snippet", Str("s")>>,
              <<"date", NoneV>>, <<"thumbnail_url", NoneV>>, <<"site_name", NoneV>> >>]

\* SearchClient.search -> SearchProvider.search: the list `results` of the
\* SearchResponse it returns, or a SearchError.  SerperProvider.search
\* (providers.py 111-154) returns the items of _convert_response.
SearchOutcomes ==
    { Return(List(<<>>)), Return(List(<<SerperItem>>)), Return(List(<<SearchResultObject>>)),
      Raise("Request timed out") }

-----------------------------------------------------------------------------
(* The Tool Catalog and the Tool Dispatcher.                               *)

\* The names get_memory_tools offers (tools.py 21, 48, 75, 92, 114).
CatalogNames == {"memory_query", "memory_write", "memory_schema", "embedding", "web_search"}

\* The names the model may return: the catalogued ones and one that is not.
ToolNames == CatalogNames \cup {"frobnicate"}

Call(op, args) == [op |-> op, args |-> args]

TypeName(v) == IF v.k = "None" THEN "NoneType" ELSE v.k

\* arguments.get on a value that is no dict raises AttributeError.
NoGet(v) == "'" \o TypeName(v) \o "' object has no attribute 'get'"

\* A collaborator call: its outcome is the environment's.
Await(op, args, env) ==
    IF env.kind = "raise" THEN Exc(env.message, <<Call(op, args)>>)
    ELSE Ok(env.value, <<Call(op, args)>>)

\* _generate_embedding (lines 252-272).
GenerateEmbedding(text, env) ==
    LET r == Await("openai.embeddings.create", <<text>>, env)
    IN IF r.exc THEN r ELSE Ok(Dict(<< <<"vector", r.value>> >>), r.calls)

\* One element of the comprehension of lines 305-315: attribute access on a
\* result that is a plain dict raises AttributeError.
IsSearchResult(r) == r.k = "SearchResult"

ResultMapping(r) ==
    Dict(<< <<"title", DictGet(r.c, "title", NoneV)>>,
            <<"link", DictGet(r.c, "link", NoneV)>>,
            <<"snippet", DictGet(r.c, "snippet", NoneV)>>,
            <<"date", DictGet(r.c, "date", NoneV)>>,
            <<"thumbnailUrl", DictGet(r.c, "thumbnail_url", NoneV)>>,
            <<"siteName", DictGet(r.c, "site_name", NoneV)>> >>)

\* _web_search (lines 275-316).
WebSearch(query, num_results, search_type, opts, env) ==
    IF ~opts.search
    THEN Ok(Dict(<< <<"error", Str("Search client not configured")>> >>), <<>>)
    ELSE LET r == Await("search.search", <<query, search_type, num_results>>, env)
         IN IF r.exc THEN r
            ELSE IF \E i \in 1..Len(r.value.c) : ~IsSearchResult(r.value.c[i])
            THEN Exc("'dict' object has no attribute 'title'", r.calls)
            ELSE Ok(Dict(<< <<"query", query>>,
                            <<"totalResults", NoneV>>,
                            <<"results",
                              List([i \in 1..Len(r.value.c) |-> ResultMapping(r.value.c[i])])>> >>),
                    r.calls)

\* A match statement without the embedding case.
DispatcherNames_NoEmbedding == {"memory_query", "memory_write", "memory_schema", "web_search"}

\* The names _execute_tool has a case for (lines 222, 227, 232, 235, 239).
DispatcherNames == {"memory_query", "memory_write", "memory_schema", "embedding", "web_search"}

\* The cases of the match statement for the names it knows (lines 222-243).
MatchKnown(name, args, opts, env) ==
    CASE name = "memory_query" ->
            IF args.k # "dict" THEN Exc(NoGet(args), <<>>)
            ELSE Await("memory.query",
                       <<DictGet(args.c, "cypher", Str("")), DictGet(args.c, "params", Dict(<<>>))>>,
                       env)
      [] name = "memory_write" ->
            IF args.k # "dict" THEN Exc(NoGet(args), <<>>)
            ELSE Await("memory.write",
                       <<DictGet(args.c, "cypher", Str("")), DictGet(args.c, "params", Dict(<<>>))>>,
                       env)
      [] name = "memory_schema" -> Await("memory.schema", <<>>, env)
      [] name = "embedding" ->
            IF args.k # "dict" THEN Exc(NoGet(args), <<>>)
            ELSE GenerateEmbedding(DictGet(args.c, "text", Str("")), env)
      [] name = "web_search" ->
            IF args.k # "dict" THEN Exc(NoGet(args), <<>>)
            ELSE WebSearch(DictGet(args.c, "query", Str("")),
                           DictGet(args.c, "num_results", NoneV),
                           DictGet(args.c, "type", Str("search")), opts, env)
\* A handler table indexed by the name: an unknown name is a KeyError.
ExecuteToolBody_Lookup(name, args, opts, env) ==
    IF name \in DispatcherNames THEN MatchKnown(name, args, opts, env)
    ELSE Exc("'" \o name \o "'", <<>>)

\* The match statement of _execute_tool (lines 221-246), before the except clause:
\* `case _` answers every other name.
ExecuteToolBody(name, args, opts, env) ==
    IF name \in DispatcherNames THEN MatchKnown(name, args, opts, env)
    ELSE Ok(Dict(<< <<"error", Str("Unknown tool: " \o name)>> >>), <<>>)

\* _execute_tool without its except clause.
ExecuteTool_NoExcept(name, args, opts, env) == ExecuteToolBody(name, args, opts, env)

\* An except clause that returns an empty mapping.
ExecuteTool_EmptyError(name, args, opts, env) ==
    LET r == ExecuteToolBody(name, args, opts, env)
    IN IF r.exc THEN Ok(Dict(<<>>), r.calls) ELSE r

\* An except clause that reports the failure next to an empty payload.
ExecuteTool_ErrorAndPayload(name, args, opts, env) ==
    LET r == ExecuteToolBody(name, args, opts, env)
    IN IF r.exc
       THEN Ok(Dict(<< <<"error", Str(r.message)>>, <<"result", NoneV>> >>), r.calls)
       ELSE r

\* _execute_tool (lines 205-249): `except Exception as e: return {"error": str(e)}`.
ExecuteTool(name, args, opts, env) ==
    LET r == ExecuteToolBody(name, args, opts, env)
    IN IF r.exc THEN Ok(Dict(<< <<"error", Str(r.message)>> >>), r.calls) ELSE r

\* What the collaborator reached by a dispatch may do; NoOutcome where the
\* dispatch calls none.
Outcomes(name, args, opts) ==
    CASE name = "memory_schema" -> MemorySchemaOutcomes
      [] name \in {"memory_query", "memory_write", "embedding", "web_search"} /\ args.k # "dict"
            -> {NoOutcome}
      [] name = "memory_query" -> MemoryQueryOutcomes
      [] name = "memory_write" -> MemoryWriteOutcomes
      [] name = "embedding" -> EmbeddingOutcomes
      [] name = "web_search" -> IF opts.search THEN SearchOutcomes ELSE {NoOutcome}
      [] OTHER -> {NoOutcome}

-----------------------------------------------------------------------------
(* Messages, steps and the model's responses.                              *)

\* The text of prompt.py, shortened.
SYSTEM_PROMPT == "You are nakari, a unique AI with your own memory database."

ExhaustedNotice ==
    "You have reached the maximum number of iterations. "
    \o "Please provide your final response to the user now."

Message(role, content) == [role |-> role, content |-> content]
\* A tool message that does not name its invocation.
ToolMessage_Untagged(id, content) == [role |-> "tool", tool_call_id |-> "", content |-> content]

ToolMessage(id, content) == [role |-> "tool", tool_call_id |-> id, content |-> content]

\* LoopStep.__init__ (lines 73-94) with its defaults.
LoopStep(type, content, name, args, res) ==
    [type |-> type, content |-> content, name |-> name, arguments |-> args, result |-> res]

\* A response step that carries no text.
ResponseStep_Empty(content) == LoopStep("response", "", "", NoneV, NoneV)

ResponseStep(content) == LoopStep("response", content, "", NoneV, NoneV)
ToolCallStep(name, args) == LoopStep("tool_call", "", name, args, NoneV)

\* A tool_result step built from the normalised result.
ToolResultStep_Normalised(name, res) ==
    LoopStep("tool_result", "", name, NoneV, JsonSerializable(res))

\* A tool_result step built without its name.
ToolResultStep_Unnamed(name, res) == LoopStep("tool_result", "", "", NoneV, res)

ToolResultStep(name, res) == LoopStep("tool_result", "", name, NoneV, res)

\* The caller's histories: none, or one earlier turn.
Histories ==
    { <<>>,
      <<Message("user", Str("hello")), Message("assistant", Str("hi"))>> }

UserMessages == {"2+2?"}

\* message.content of a response: absent, empty or a text.
Contents == {NoneV, Str(""), Str("4")}

\* A tool invocation of a response: tool_call.id, .function.name, .function.arguments.
Invocation(id, name, payload) == [id |-> id, name |-> name, arguments |-> payload]

CallId(round, i) == "call_" \o ToString(round) \o "_" \o ToString(i)

\* The default tool round: the one invocation memory_schema with no arguments.
DefaultChoice == <<"memory_schema", "">>

\* The invocations of the loop's runs: every tool name, and every kind of payload.
InvocationChoices ==
    { DefaultChoice, <<"memory_schema", "{">>, <<"memory_query", ObjPayload>>,
      <<"memory_query", "[]">>, <<"memory_write", ObjPayload>>, <<"embedding", ObjPayload>>,
      <<"web_search", ObjPayload>>, <<"frobnicate", ObjPayload>>,
      <<"memory_query", WritePayload>> }

NonDefault(choices) == Cardinality({i \in 1..Len(choices) : choices[i] # DefaultChoice})

ToolRoundText == Str("Let me look.")

\* The non-default tool rounds: up to MaxCalls invocations of which one is not
\* the default one, or default invocations together with a text.
VariedRounds ==
    { <<NoneV, ch>> : ch \in { x \in UNION {[1..n -> InvocationChoices] : n \in 1..MaxCalls} :
                                 NonDefault(x) <= 1 /\ x # <<DefaultChoice>> } }
    \cup { <<ToolRoundText, ch>> : ch \in UNION {[1..n -> {DefaultChoice}] : n \in 1..MaxCalls} }

\* The tool-calling responses the model may give in round `round`: the default
\* round, and once per run (while `spent` is FALSE) any non-default round.
ToolResponses(round, spent) ==
    { [content |-> x[1],
       tool_calls |-> [i \in 1..Len(x[2]) |->
                          Invocation(CallId(round, i), x[2][i][1], x[2][i][2])],
       varied |-> x # <<NoneV, <<DefaultChoice>>>>] :
      x \in {<<NoneV, <<DefaultChoice>>>>} \cup (IF spent THEN {} ELSE VariedRounds) }

-----------------------------------------------------------------------------
(* run_react_loop (lines 107-202).                                         *)

NoMessage == [content |-> NoneV, tool_calls |-> <<>>]

\* No second run.
NoRun == [pc |-> "None"]

\* The call arguments: any history, user message and options.
Init ==
    /\ history \in Histories
    /\ user_message \in UserMessages
    /\ options \in [search : BOOLEAN, on_step : BOOLEAN]
    /\ pc = "Start"
    /\ iteration = 0
    /\ messages = <<>>
    /\ message = NoMessage
    /\ tc = 0
    /\ arguments = NoneV
    /\ result = NoneV
    /\ final_content = ""
    /\ raised = ""
    /\ steps = <<>>
    /\ notified = <<>>
    /\ model_calls = <<>>
    /\ dispatches = <<>>
    /\ varied = FALSE
    /\ other = NoRun
    /\ current = 1
    /\ store = InitialStore

\* range(MAX_ITERATIONS) with one round too many.
InRange_OneMore(i) == i <= MAX_ITERATIONS

\* `while True` in place of the bounded for loop.
InRange_Always(i) == TRUE

\* range(MAX_ITERATIONS) (line 131): whether the loop has a next round.
InRange(i) == i < MAX_ITERATIONS

\* The final call passing the Tool Catalog like the calls of the rounds.
FinalCallTools_Given == TRUE

\* Lines 195-198: the final call passes no `tools`.
FinalCallTools == FALSE

\* A round's call that leaves the Tool Catalog out.
RoundCallTools_Omitted == FALSE

\* Lines 133-138: every round's call passes tools=tools.
RoundCallTools == TRUE

\* _emit_step (lines 319-327): the step goes to on_step when one is configured.
EmitStep(step) ==
    /\ steps' = Append(steps, step)
    /\ notified' = IF options.on_step THEN Append(notified, step) ELSE notified

\* What a call of the notifier may do: return, or raise (fails = TRUE).
NotifierOutcomes == IF options.on_step THEN {FALSE, TRUE} ELSE {FALSE}

\* A sequence built by extending the caller's list in place.
Start_InPlace ==
    /\ pc = "Start"
    /\ UNCHANGED <<other, current, store>>
    /\ history' = <<Message("system", Str(SYSTEM_PROMPT))>> \o history
                  \o <<Message("user", Str(user_message))>>
    /\ messages' = history'
    /\ pc' = "Reasoning"
    /\ UNCHANGED <<user_message, options, iteration, message, tc, arguments,
                   result, final_content, raised, steps, notified, model_calls,
                   dispatches, varied>>

\* A sequence built with the user message ahead of the history.
Start_UserFirst ==
    /\ pc = "Start"
    /\ UNCHANGED <<other, current, store>>
    /\ messages' = <<Message("system", Str(SYSTEM_PROMPT)), Message("user", Str(user_message))>>
                   \o history
    /\ pc' = "Reasoning"
    /\ UNCHANGED <<history, user_message, options, iteration, message, tc, arguments,
                   result, final_content, raised, steps, notified, model_calls,
                   dispatches, varied>>

\* Lines 122-129: messages = [system, *history, user].
Start ==
    /\ pc = "Start"
    /\ UNCHANGED <<other, current, store>>
    /\ messages' = <<Message("system", Str(SYSTEM_PROMPT))>> \o history
                   \o <<Message("user", Str(user_message))>>
    /\ pc' = "Reasoning"
    /\ UNCHANGED <<history, user_message, options, iteration, message, tc, arguments,
                   result, final_content, raised, steps, notified, model_calls,
                   dispatches, varied>>

\* No run calls the model more often than this: it keeps a loop that never
\* leaves its rounds finite.
CallCap == MAX_ITERATIONS + 2

\* Lines 131-138: the next round calls the model with the Tool Catalog.
InvokeModel ==
    /\ pc = "Reasoning"
    /\ UNCHANGED <<other, current, store>>
    /\ InRange(iteration)
    /\ Len(model_calls) < CallCap
    /\ model_calls' = Append(model_calls,
                             [tools |-> RoundCallTools, n_messages |-> Len(messages)])
    /\ pc' = "AwaitModel"
    /\ UNCHANGED <<history, user_message, options, iteration, messages, message, tc,
                   arguments, result, final_content, raised, steps, notified,
                   dispatches, varied>>

\* Lines 140-153: the response has no tool calls; it is the final response.
ModelAnswers ==
    /\ pc = "AwaitModel"
    /\ UNCHANGED <<other, current, store>>
    /\ \E content \in Contents, fails \in NotifierOutcomes :
          /\ message' = [content |-> content, tool_calls |-> <<>>]
          /\ messages' = Append(messages, Message("assistant", content))
          /\ EmitStep(ResponseStep(OrEmpty(content)))
          /\ IF fails
             THEN pc' = "Raised" /\ raised' = "notifier" /\ UNCHANGED final_content
             ELSE pc' = "Responding" /\ final_content' = OrEmpty(content) /\ UNCHANGED raised
    /\ UNCHANGED <<history, user_message, options, iteration, tc, arguments, result,
                   model_calls, dispatches, varied>>

\* A round that appends the assistant message only when no tool is called.
ModelCallsTools_NoAssistant ==
    /\ pc = "AwaitModel"
    /\ UNCHANGED <<other, current, store>>
    /\ \E resp \in ToolResponses(iteration + 1, varied) :
          /\ message' = [content |-> resp.content, tool_calls |-> resp.tool_calls]
          /\ varied' = (varied \/ resp.varied)
    /\ tc' = 1
    /\ pc' = "Acting"
    /\ UNCHANGED <<history, user_message, options, iteration, arguments, result, messages,
                   final_content, raised, steps, notified, model_calls, dispatches>>

\* A round that emits the text of a tool-calling response as a thought step.
ModelCallsTools_Thought ==
    /\ pc = "AwaitModel"
    /\ UNCHANGED <<other, current, store>>
    /\ \E resp \in ToolResponses(iteration + 1, varied) :
          /\ message' = [content |-> resp.content, tool_calls |-> resp.tool_calls]
          /\ messages' = Append(messages, Message("assistant", resp.content))
          /\ varied' = (varied \/ resp.varied)
          /\ IF resp.content.k = "str"
             THEN EmitStep(LoopStep("thought", resp.content.a, "", NoneV, NoneV))
             ELSE UNCHANGED <<steps, notified>>
    /\ tc' = 1
    /\ pc' = "Acting"
    /\ UNCHANGED <<history, user_message, options, iteration, arguments, result,
                   final_content, raised, model_calls, dispatches>>

\* Lines 140-156: the response has tool calls; the round goes on to execute them.
ModelCallsTools ==
    /\ pc = "AwaitModel"
    /\ UNCHANGED <<other, current, store>>
    /\ \E resp \in ToolResponses(iteration + 1, varied) :
          /\ message' = [content |-> resp.content, tool_calls |-> resp.tool_calls]
          /\ messages' = Append(messages, Message("assistant", resp.content))
          /\ varied' = (varied \/ resp.varied)
    /\ tc' = 1
    /\ pc' = "Acting"
    /\ UNCHANGED <<history, user_message, options, iteration, arguments, result,
                   final_content, raised, steps, notified, model_calls, dispatches>>

\* A failed chat-completion call that is caught and answered with the empty text.
ModelFails_Swallowed ==
    /\ pc \in {"AwaitModel", "AwaitFinal"}
    /\ UNCHANGED <<other, current, store>>
    /\ pc' = "Responding"
    /\ raised' = "model"
    /\ UNCHANGED <<history, user_message, options, iteration, messages, message, tc,
                   arguments, result, final_content, steps, notified, model_calls,
                   dispatches, varied>>

\* Lines 133-138 and 195-198: the chat-completion call raises; nothing catches it.
ModelFails ==
    /\ pc \in {"AwaitModel", "AwaitFinal"}
    /\ UNCHANGED <<other, current, store>>
    /\ pc' = "Raised"
    /\ raised' = "model"
    /\ UNCHANGED <<history, user_message, options, iteration, messages, message, tc,
                   arguments, result, final_content, steps, notified, model_calls,
                   dispatches, varied>>

\* The invocations of a response taken from the last to the first.
tool_call_Reversed == message.tool_calls[Len(message.tool_calls) + 1 - tc]

\* The invocation the for loop of line 156 is at.
tool_call == message.tool_calls[tc]

\* d[key] = value on the items of a dict.
SetItem(items, key, value) ==
    IF \E i \in 1..Len(items) : items[i][1] = key
    THEN [i \in 1..Len(items) |-> IF items[i][1] = key THEN <<key, value>> ELSE items[i]]
    ELSE Append(items, <<key, value>>)

\* The query a notifier writes into the arguments it is shown.
RewrittenCypher == Str("MATCH (n) DETACH DELETE n")

\* LoopStep keeps the `arguments` object itself (line 93) and the loop passes the
\* same object to _execute_tool (line 170): what on_step leaves of the arguments
\* of a tool_call step is what is dispatched.  A notifier leaves them alone, or
\* (one that rewrites the cypher of memory_query calls) assigns
\* step.arguments["cypher"].
ArgumentsAfterNotify(name, args) ==
    {args} \cup
    IF /\ options.on_step
       /\ name = "memory_query"
       /\ args.k = "dict"
       /\ DictGet(args.c, "cypher", NoneV) # NoneV
    THEN {Dict(SetItem(args.c, "cypher", RewrittenCypher))}
    ELSE {}

\* A tool_call emission whose notifier failure is caught and ignored.
Acting_NotifierSwallowed ==
    /\ pc = "Acting"
    /\ UNCHANGED <<other, current, store>>
    /\ LET parsed == ParseArguments(tool_call.arguments)
       IN /\ EmitStep(ToolCallStep(tool_call.name, parsed.value))
          /\ \E fails \in NotifierOutcomes :
                /\ arguments' = parsed.value
                /\ pc' = "Dispatch"
                /\ raised' = IF fails THEN "notifier" ELSE raised
    /\ UNCHANGED <<history, user_message, options, iteration, messages, message, tc,
                   result, final_content, model_calls, dispatches, varied>>

\* Lines 156-167: parse the arguments of the next invocation and emit tool_call.
Acting ==
    /\ pc = "Acting"
    /\ UNCHANGED <<other, current, store>>
    /\ LET parsed == ParseArguments(tool_call.arguments)
       IN IF parsed.exc
          THEN /\ pc' = "Raised" /\ raised' = "parse"
               /\ UNCHANGED <<arguments, steps, notified>>
          ELSE /\ EmitStep(ToolCallStep(tool_call.name, parsed.value))
               /\ \E fails \in NotifierOutcomes :
                     IF fails
                     THEN /\ pc' = "Raised" /\ raised' = "notifier"
                          /\ arguments' = parsed.value
                     ELSE /\ pc' = "Dispatch" /\ UNCHANGED raised
                          /\ arguments' \in ArgumentsAfterNotify(tool_call.name, parsed.value)
    /\ UNCHANGED <<history, user_message, options, iteration, messages, message, tc,
                   result, final_content, model_calls, dispatches, varied>>

\* session.run(cypher, params) of MemoryClient.query and MemoryClient.write
\* (memory/__init__.py 39-40 and 56-57): the session is opened without an
\* access mode and the statement is run as it is, so a writing statement
\* changes the database in either operation.
SessionRun(db, cypher) ==
    CASE cypher = Str("MERGE (n:Fact)") -> db \cup {"Fact"}
      [] cypher = RewrittenCypher -> {}
      [] OTHER -> db

\* The database after a dispatch: the statement of a memory.query or
\* memory.write call that returned has been run.
StoreAfter(db, calls, env) ==
    IF /\ calls # <<>>
       /\ calls[1].op \in {"memory.query", "memory.write"}
       /\ env.kind = "return"
    THEN SessionRun(db, calls[1].args[1])
    ELSE db

\* What the collaborator of this dispatch may do: the default invocation is
\* answered, any other invocation may also fail.
DispatchOutcomes ==
    IF <<tool_call.name, tool_call.arguments>> = DefaultChoice
    THEN {Return(MemorySchemaValue)}
    ELSE Outcomes(tool_call.name, arguments, options)

\* A dispatch that is made a second time when the collaborator raised.
Dispatch_RetryOnce ==
    /\ pc = "Dispatch"
    /\ UNCHANGED <<other, current>>
    /\ \E env \in DispatchOutcomes :
          LET r == ExecuteTool(tool_call.name, arguments, options, env)
              again == /\ env.kind = "raise"
                       /\ \/ dispatches = <<>>
                          \/ dispatches[Len(dispatches)].id # tool_call.id
          IN /\ dispatches' = Append(dispatches,
                    [id |-> tool_call.id, name |-> tool_call.name,
                     payload |-> tool_call.arguments,
                     arguments |-> arguments, env |-> env, calls |-> r.calls,
                     exc |-> r.exc, result |-> r.value,
                     store_before |-> store,
                     store_after |-> StoreAfter(store, r.calls, env)])
             /\ store' = StoreAfter(store, r.calls, env)
             /\ result' = r.value
             /\ pc' = IF again THEN "Dispatch" ELSE "Result"
             /\ UNCHANGED raised
    /\ UNCHANGED <<history, user_message, options, iteration, messages, message, tc,
                   arguments, final_content, steps, notified, model_calls, varied>>

\* Line 170: result = await _execute_tool(tool_name, arguments, options).
Dispatch ==
    /\ pc = "Dispatch"
    /\ UNCHANGED <<other, current>>
    /\ \E env \in DispatchOutcomes :
          LET r == ExecuteTool(tool_call.name, arguments, options, env)
          IN /\ dispatches' = Append(dispatches,
                    [id |-> tool_call.id, name |-> tool_call.name,
                     payload |-> tool_call.arguments,
                     arguments |-> arguments, env |-> env, calls |-> r.calls,
                     exc |-> r.exc, result |-> r.value,
                     store_before |-> store,
                     store_after |-> StoreAfter(store, r.calls, env)])
             /\ store' = StoreAfter(store, r.calls, env)
             /\ result' = r.value
             /\ IF r.exc THEN pc' = "Raised" /\ raised' = "tool"
                ELSE pc' = "Result" /\ UNCHANGED raised
    /\ UNCHANGED <<history, user_message, options, iteration, messages, message, tc,
                   arguments, final_content, steps, notified, model_calls, varied>>

\* Lines 172-184 and the loop headers 156 and 131: serialise the result (a
\* TypeError of json.dumps leaves the loop), emit tool_result, append the tool
\* message and go to the next invocation or round.
Result ==
    /\ pc = "Result"
    /\ UNCHANGED <<other, current, store>>
    /\ IF JsonDumpsRaises(JsonSerializable(result))
       THEN /\ pc' = "Raised" /\ raised' = "serialise"
            /\ UNCHANGED <<messages, tc, iteration, steps, notified>>
       ELSE /\ EmitStep(ToolResultStep(tool_call.name, result))
            /\ \E fails \in NotifierOutcomes :
                  IF fails
                  THEN /\ pc' = "Raised" /\ raised' = "notifier"
                       /\ UNCHANGED <<messages, tc, iteration>>
                  ELSE /\ messages' = Append(messages,
                              ToolMessage(tool_call.id, Str(JsonDumps(JsonSerializable(result)))))
                       /\ IF tc < Len(message.tool_calls)
                          THEN tc' = tc + 1 /\ pc' = "Acting" /\ UNCHANGED iteration
                          ELSE tc' = tc /\ pc' = "Reasoning" /\ iteration' = iteration + 1
                       /\ UNCHANGED raised
    /\ UNCHANGED <<history, user_message, options, message, arguments, result,
                   final_content, model_calls, dispatches, varied>>

\* Lines 186-198: the rounds are used up; append the notice and call the model
\* once more, without tools.
Exhaust ==
    /\ pc = "Reasoning"
    /\ UNCHANGED <<other, current, store>>
    /\ ~InRange(iteration)
    /\ messages' = Append(messages, Message("system", Str(ExhaustedNotice)))
    /\ model_calls' = Append(model_calls,
                             [tools |-> FinalCallTools, n_messages |-> Len(messages')])
    /\ pc' = "AwaitFinal"
    /\ UNCHANGED <<history, user_message, options, iteration, message, tc, arguments,
                   result, final_content, raised, steps, notified, dispatches, varied>>

\* What the forced final call may return: any content, with or without tool calls.
FinalResponses ==
    { [content |-> content, tool_calls |-> calls] :
      content \in Contents,
      calls \in {<<>>, <<Invocation("call_final", "memory_schema", "")>>} }

\* Lines 200-202: the content of the final response is emitted and returned.
FinalAnswers ==
    /\ pc = "AwaitFinal"
    /\ UNCHANGED <<other, current, store>>
    /\ \E resp \in FinalResponses, fails \in NotifierOutcomes :
          /\ message' = resp
          /\ EmitStep(ResponseStep(OrEmpty(resp.content)))
          /\ IF fails
             THEN pc' = "Raised" /\ raised' = "notifier" /\ UNCHANGED final_content
             ELSE pc' = "Exhausted" /\ final_content' = OrEmpty(resp.content)
                  /\ UNCHANGED raised
    /\ UNCHANGED <<history, user_message, options, iteration, messages, tc, arguments,
                   result, model_calls, dispatches, varied>>

Next ==
    \/ Start
    \/ InvokeModel
    \/ ModelAnswers
    \/ ModelCallsTools
    \/ ModelFails
    \/ Acting
    \/ Dispatch
    \/ Result
    \/ Exhaust
    \/ FinalAnswers

Spec == Init /\ [][Next]_vars

\* Every await of the run returns and the coroutine is resumed: the run takes
\* its next step whenever it has one.
FairSpec == Spec /\ WF_vars(Next)

\* The caller calls run_react_loop again with the same arguments once a run has
\* returned or raised: every local of the function is created anew (lines
\* 122-131); the module has no other state.
CallAgain ==
    /\ pc \in {"Responding", "Exhausted", "Raised"}
    /\ UNCHANGED <<other, current, store>>
    /\ pc' = "Start"
    /\ iteration' = 0
    /\ messages' = <<>>
    /\ message' = NoMessage
    /\ tc' = 0
    /\ arguments' = NoneV
    /\ result' = NoneV
    /\ final_content' = ""
    /\ raised' = ""
    /\ steps' = <<>>
    /\ notified' = <<>>
    /\ model_calls' = <<>>
    /\ dispatches' = <<>>
    /\ varied' = FALSE
    /\ UNCHANGED <<history, user_message, options>>

SessionNext == Next \/ CallAgain

\* Runs of run_react_loop one after the other on the same arguments.
SessionSpec == Init /\ [][SessionNext]_vars

-----------------------------------------------------------------------------
(* Two runs of run_react_loop as tasks of one event loop.  A run gives up   *)
(* the loop only where it awaits: the model call of a round (line 133), the *)
(* collaborator call of a dispatch (line 170) and the final model call      *)
(* (line 195).  The arguments and locals of the suspended run are kept in   *)
(* `other`; the variables describe the run that has the loop.               *)

RunState ==
    [pc |-> pc, history |-> history, user_message |-> user_message, options |-> options,
     iteration |-> iteration, messages |-> messages, message |-> message, tc |-> tc,
     arguments |-> arguments, result |-> result, final_content |-> final_content,
     raised |-> raised, steps |-> steps, notified |-> notified,
     model_calls |-> model_calls, dispatches |-> dispatches, varied |-> varied]

\* Where a run is suspended: not yet started, or awaiting.
SuspensionPoints == {"Start", "AwaitModel", "Dispatch", "AwaitFinal"}

Finished == {"Responding", "Exhausted", "Raised"}

\* Two runs whose `messages` is one list shared between them.
Switch_SharedSequence ==
    /\ other # NoRun
    /\ pc \in SuspensionPoints \cup Finished
    /\ other.pc \in SuspensionPoints
    /\ other' = RunState
    /\ current' = 3 - current
    /\ UNCHANGED store
    /\ pc' = other.pc
    /\ history' = other.history
    /\ user_message' = other.user_message
    /\ options' = other.options
    /\ iteration' = other.iteration
    /\ messages' = messages
    /\ message' = other.message
    /\ tc' = other.tc
    /\ arguments' = other.arguments
    /\ result' = other.result
    /\ final_content' = other.final_content
    /\ raised' = other.raised
    /\ steps' = other.steps
    /\ notified' = other.notified
    /\ model_calls' = other.model_calls
    /\ dispatches' = other.dispatches
    /\ varied' = other.varied

\* The run that has the loop awaits (or has ended) and the suspended run is
\* resumed: each run keeps its own arguments and locals.
Switch ==
    /\ other # NoRun
    /\ pc \in SuspensionPoints \cup Finished
    /\ other.pc \in SuspensionPoints
    /\ other' = RunState
    /\ current' = 3 - current
    /\ UNCHANGED store
    /\ pc' = other.pc
    /\ history' = other.history
    /\ user_message' = other.user_message
    /\ options' = other.options
    /\ iteration' = other.iteration
    /\ messages' = other.messages
    /\ message' = other.message
    /\ tc' = other.tc
    /\ arguments' = other.arguments
    /\ result' = other.result
    /\ final_content' = other.final_content
    /\ raised' = other.raised
    /\ steps' = other.steps
    /\ notified' = other.notified
    /\ model_calls' = other.model_calls
    /\ dispatches' = other.dispatches
    /\ varied' = other.varied

\* The history and the user message of the second run, disjoint from the first's.
SecondHistory ==
    <<Message("user", Str("good morning")), Message("assistant", Str("morning"))>>

SecondUserMessage == "3+3?"

\* Two runs about to start; in both the model asks for the schema or answers.
TwoInit ==
    /\ history \in Histories
    /\ user_message \in UserMessages
    /\ options \in [search : {FALSE}, on_step : BOOLEAN]
    /\ pc = "Start"
    /\ iteration = 0
    /\ messages = <<>>
    /\ message = NoMessage
    /\ tc = 0
    /\ arguments = NoneV
    /\ result = NoneV
    /\ final_content = ""
    /\ raised = ""
    /\ steps = <<>>
    /\ notified = <<>>
    /\ model_calls = <<>>
    /\ dispatches = <<>>
    /\ varied = TRUE
    /\ current = 1
    /\ store = InitialStore
    /\ \E opts \in [search : {FALSE}, on_step : BOOLEAN] :
          other = [pc |-> "Start", history |-> SecondHistory,
                   user_message |-> SecondUserMessage, options |-> opts,
                   iteration |-> 0, messages |-> <<>>, message |-> NoMessage, tc |-> 0,
                   arguments |-> NoneV, result |-> NoneV, final_content |-> "",
                   raised |-> "", steps |-> <<>>, notified |-> <<>>,
                   model_calls |-> <<>>, dispatches |-> <<>>, varied |-> TRUE]

TwoNext == Next \/ Switch

TwoRunSpec == TwoInit /\ [][TwoNext]_vars

-----------------------------------------------------------------------------
(* The dispatcher alone: _execute_tool applied to every tool name, every   *)
(* arguments value the loop parses out of a payload, with and without a    *)
(* search collaborator, under every outcome of the collaborator.           *)

DispatchInit ==
    /\ history = <<>>
    /\ user_message \in UserMessages
    /\ options \in [search : BOOLEAN, on_step : {FALSE}]
    /\ pc = "Dispatch"
    /\ iteration = 0
    /\ messages = <<>>
    /\ \E name \in ToolNames, payload \in ArgPayloads :
          /\ message = [content |-> NoneV,
                        tool_calls |-> <<Invocation(CallId(1, 1), name, payload)>>]
          /\ arguments = ParseArguments(payload).value
    /\ tc = 1
    /\ result = NoneV
    /\ final_content = ""
    /\ raised = ""
    /\ steps = <<>>
    /\ notified = <<>>
    /\ model_calls = <<>>
    /\ dispatches = <<>>
    /\ varied = FALSE
    /\ other = NoRun
    /\ current = 1
    /\ store = InitialStore

DispatchNext == Dispatch

DispatchSpec == DispatchInit /\ [][DispatchNext]_vars

-----------------------------------------------------------------------------
(* Properties.                                                             *)

Returned == pc \in {"Responding", "Exhausted"}

\* The tool messages of the sequence, in order.
ToolMsgs == SelectSeq(messages, LAMBDA m : m.role = "tool")

\* The messages the run has appended after [system, *history, user].
Appended == SubSeq(messages, Len(history) + 3, Len(messages))

\* The content of the last model response as a text, "" when it is absent.
ResponseText == IF message.content.k = "None" THEN "" ELSE message.content.a

\* The run is past the tool message of its last dispatch and has not raised.
PastResult ==
    pc \in {"Acting", "Dispatch", "Reasoning", "AwaitModel", "AwaitFinal", "Responding",
            "Exhausted"}

ErrorMapping(text) == Dict(<< <<"error", Str(text)>> >>)

\* The first n dispatches each have their tool_call and tool_result steps,
\* adjacent, in order and under the dispatched name.
PairedSteps(n) ==
    \A j \in 1..n :
        /\ 2 * j <= Len(steps)
        /\ steps[2 * j - 1].type = "tool_call"
        /\ steps[2 * j - 1].name = dispatches[j].name
        /\ steps[2 * j].type = "tool_result"
        /\ steps[2 * j].name = dispatches[j].name

\* C1: whatever the model returns and whatever the tools do, a run makes at
\* most MAX_ITERATIONS + 1 = 11 chat-completion calls.
C1_ModelCallsBounded ==
    /\ Len(model_calls) <= MAX_ITERATIONS + 1
    /\ Len(model_calls) <= 11

\* A run that used all ten rounds with tools and made the eleventh call.
C1_Witness ==
    /\ pc = "Exhausted"
    /\ Len(model_calls) = 11
    /\ varied

\* C2: when every model call and every dispatch returns (nothing raises and
\* the run keeps being resumed), the run eventually returns its final text
\* through Responding or Exhausted; it does not stay in the Reasoning/Acting
\* cycle, even if every response asks for tools.
C2_RunReturns == [](raised = "") => <>Returned

\* The model asked for tools in all ten rounds and the run still returned.
C2_Witness ==
    /\ pc = "Exhausted"
    /\ Len(dispatches) >= MAX_ITERATIONS
    /\ raised = ""

\* The first response of the run has been received and holds no tool calls.
FirstResponseAnswers ==
    /\ iteration = 0
    /\ Len(messages) = Len(history) + 3
    /\ message.tool_calls = <<>>

\* C3: if the first response has no tool invocations, the run has made exactly
\* one model call and no dispatch, has emitted exactly one step, a response step
\* with the response's content ("" when absent), and (unless the notifier raised
\* on that step) has returned that same text.
C3_ImmediateAnswer ==
    FirstResponseAnswers =>
        /\ Len(model_calls) = 1
        /\ dispatches = <<>>
        /\ Len(steps) = 1
        /\ steps[1].type = "response"
        /\ steps[1].content = ResponseText
        /\ messages[Len(messages)] = Message("assistant", message.content)
        /\ raised = "" => (pc = "Responding" /\ final_content = ResponseText)
        /\ raised # "" => (pc = "Raised" /\ raised = "notifier")

\* history = [], "2+2?" answered "4" at once.
C3_Witness ==
    /\ FirstResponseAnswers
    /\ history = <<>>
    /\ user_message = "2+2?"
    /\ pc = "Responding"
    /\ final_content = "4"

\* All ten rounds have been used and the run has gone on to the final call.
RoundsUsedUp == iteration >= MAX_ITERATIONS /\ pc # "Reasoning"

\* C4: after ten rounds with tool invocations the run has appended exactly one
\* system message asking for the final answer, as the last message, and made
\* exactly one more model call, the eleventh, without the Tool Catalog and on
\* the sequence ending with that message; whatever that call returns, its
\* content ("" when absent) is the response step and the returned text, no tool
\* is dispatched for it and the run has no further step.
C4_ForcedFinalCall ==
    RoundsUsedUp =>
        /\ Len(model_calls) = MAX_ITERATIONS + 1
        /\ \A i \in 1..MAX_ITERATIONS : model_calls[i].tools
        /\ ~model_calls[MAX_ITERATIONS + 1].tools
        /\ messages[Len(messages)] = Message("system", Str(ExhaustedNotice))
        /\ Cardinality({i \in 1..Len(Appended) : Appended[i].role = "system"}) = 1
        /\ model_calls[MAX_ITERATIONS + 1].n_messages = Len(messages)
        /\ Len(ToolMsgs) = Len(dispatches)
        /\ Len(steps) <= 2 * Len(dispatches) + 1
        /\ pc \in {"AwaitFinal", "Exhausted", "Raised"}
        /\ pc = "Exhausted" =>
              /\ final_content = ResponseText
              /\ steps[Len(steps)] = ResponseStep(ResponseText)
        /\ pc # "AwaitFinal" => ~ENABLED Next

\* The final call returned no content and tool calls, and "" was returned.
C4_Witness ==
    /\ pc = "Exhausted"
    /\ message.content = NoneV
    /\ message.tool_calls # <<>>
    /\ final_content = ""

\* The assistant messages the run has appended, one per response received in a round.
AssistantCount == Cardinality({i \in 1..Len(Appended) : Appended[i].role = "assistant"})

\* C5: a run that returns from a round (k tool rounds, k < 10, then a response
\* without tool calls) has made exactly k + 1 model calls, each with the Tool
\* Catalog; with k = 1 and the one invocation memory_schema, the steps are
\* tool_call(memory_schema), tool_result(memory_schema), response, in that order.
C5_CallsPerRound ==
    pc = "Responding" =>
        /\ AssistantCount - 1 = iteration
        /\ iteration < MAX_ITERATIONS
        /\ Len(model_calls) = (AssistantCount - 1) + 1
        /\ \A i \in 1..Len(model_calls) : model_calls[i].tools
        /\ (AssistantCount = 2 /\ Len(dispatches) = 1 /\ dispatches[1].name = "memory_schema") =>
              /\ Len(model_calls) = 2
              /\ steps = << ToolCallStep("memory_schema", Dict(<<>>)),
                            ToolResultStep("memory_schema", dispatches[1].result),
                            ResponseStep(final_content) >>

\* One memory_schema round answered with the schema, then the answer.
C5_Witness ==
    /\ pc = "Responding"
    /\ Len(model_calls) = 2
    /\ Len(dispatches) = 1
    /\ dispatches[1].name = "memory_schema"
    /\ dispatches[1].result = MemorySchemaValue
    /\ Len(steps) = 3

\* C6: the tool_call step of an invocation is emitted before its dispatch, the
\* tool_result step under the same name after the dispatch has returned and
\* before the next model call; the steps are adjacent (tool_call, tool_result)
\* pairs, no two tool_call steps are adjacent, and a run that has returned has
\* emitted the pairs followed by one response step.
C6_StepOrder ==
    /\ pc = "Dispatch" =>
          /\ Len(steps) = 2 * Len(dispatches) + 1
          /\ PairedSteps(Len(dispatches))
          /\ steps[Len(steps)].type = "tool_call"
          /\ steps[Len(steps)].name = tool_call.name
    /\ pc = "Result" =>
          /\ Len(steps) = 2 * Len(dispatches) - 1
          /\ PairedSteps(Len(dispatches) - 1)
          /\ steps[Len(steps)].type = "tool_call"
          /\ steps[Len(steps)].name = dispatches[Len(dispatches)].name
    /\ pc \in {"Reasoning", "AwaitModel", "AwaitFinal", "Acting"} =>
          /\ Len(steps) = 2 * Len(dispatches)
          /\ PairedSteps(Len(dispatches))
    /\ Returned =>
          /\ Len(steps) = 2 * Len(dispatches) + 1
          /\ PairedSteps(Len(dispatches))
          /\ steps[Len(steps)].type = "response"
    /\ \A i \in 1..(Len(steps) - 1) :
          steps[i].type = "tool_call" => steps[i + 1].type = "tool_result"

\* A run that returned after two dispatches: two pairs and the response.
C6_Witness ==
    /\ pc = "Responding"
    /\ Len(dispatches) = 2
    /\ Len(steps) = 5

\* The dispatches whose collaborator raised.
Failed(j) == dispatches[j].env.kind = "raise"

\* C7: when the collaborator of a dispatch raises, the dispatch does not raise
\* and the run is not aborted: the result is {error: <message of the
\* exception>}, the tool_result step carries it, the tool message holds its
\* JSON text, and the loop goes on (every dispatch has its tool message once
\* the loop is at the next invocation, round or return).
C7_ToolFailureContinues ==
    /\ raised # "tool"
    /\ \A j \in 1..Len(dispatches) :
          Failed(j) =>
              /\ ~dispatches[j].exc
              /\ dispatches[j].result = ErrorMapping(dispatches[j].env.message)
              /\ 2 * j <= Len(steps) =>
                    steps[2 * j] = ToolResultStep(dispatches[j].name,
                                                  ErrorMapping(dispatches[j].env.message))
              /\ j <= Len(ToolMsgs) =>
                    ToolMsgs[j].content
                        = Str("{\"error\": \"" \o dispatches[j].env.message \o "\"}")
    /\ (Len(dispatches) > 0 /\ Failed(Len(dispatches))) =>
          /\ pc = "Result" => ENABLED Result
          /\ PastResult => Len(ToolMsgs) = Len(dispatches)

\* memory_write failed as the first of two invocations of a response; the
\* second was dispatched and the model was called again.
C7_Witness ==
    /\ pc = "AwaitModel"
    /\ Len(message.tool_calls) = 2
    /\ \E j \in 1..Len(dispatches) :
          /\ j < Len(dispatches)
          /\ dispatches[j].name = "memory_write"
          /\ Failed(j)
          /\ dispatches[j].env.message = "Connection refused"
          /\ j + 1 <= Len(ToolMsgs)
    /\ model_calls[Len(model_calls)].n_messages = Len(messages)

\* C8: _execute_tool returns a mapping and does not raise, for every tool name,
\* every arguments value the loop hands it and every outcome of the
\* collaborator it calls.
C8_DispatcherTotal ==
    /\ raised = ""
    /\ \A j \in 1..Len(dispatches) :
          /\ ~dispatches[j].exc
          /\ dispatches[j].result.k = "dict"
    /\ pc = "Result" => result.k = "dict"

\* A dispatch whose arguments are no mapping, and one whose collaborator raised.
C8_Witness ==
    /\ pc = "Result"
    /\ \/ dispatches[1].arguments.k # "dict" /\ dispatches[1].name = "memory_query"
       \/ Failed(1) /\ dispatches[1].name = "web_search"

FiveNames == {"memory_query", "memory_write", "memory_schema", "embedding", "web_search"}

\* C9: a dispatch under a name outside the five recognised ones returns exactly
\* {error: "Unknown tool: <name>"}, raises nothing and calls no collaborator;
\* the run goes on with a tool message carrying that error.
C9_UnknownTool ==
    /\ \A j \in 1..Len(dispatches) :
          dispatches[j].name \notin FiveNames =>
              /\ ~dispatches[j].exc
              /\ dispatches[j].result = ErrorMapping("Unknown tool: " \o dispatches[j].name)
              /\ dispatches[j].calls = <<>>
              /\ j <= Len(ToolMsgs) =>
                    ToolMsgs[j].content
                        = Str("{\"error\": \"Unknown tool: " \o dispatches[j].name \o "\"}")
    /\ (Len(dispatches) > 0 /\ dispatches[Len(dispatches)].name \notin FiveNames) =>
          /\ raised # "tool"
          /\ pc = "Result" => ENABLED Result
          /\ PastResult => Len(ToolMsgs) = Len(dispatches)

\* frobnicate was dispatched, its error is in the sequence and the model was called again.
C9_Witness ==
    /\ pc = "AwaitModel"
    /\ Len(dispatches) > 0
    /\ dispatches[Len(dispatches)].name = "frobnicate"
    /\ dispatches[Len(dispatches)].result = ErrorMapping("Unknown tool: frobnicate")
    /\ Len(ToolMsgs) = Len(dispatches)

\* The payloads json.loads cannot parse, and the empty one it is not given.
Unparseable == {"", "{"}

\* C10: for an argument payload that is empty or not parseable as JSON the loop
\* takes the empty mapping: the tool_call step carries {}, the dispatcher is
\* called with {}, and the run is not aborted by the payload: the round goes on
\* to the tool_result step and the tool message.
C10_MalformedArguments ==
    /\ raised # "parse"
    /\ (pc = "Dispatch" /\ tool_call.arguments \in Unparseable) =>
          /\ arguments = Dict(<<>>)
          /\ steps[Len(steps)] = ToolCallStep(tool_call.name, Dict(<<>>))
    /\ \A j \in 1..Len(dispatches) :
          dispatches[j].payload \in Unparseable =>
              /\ dispatches[j].arguments = Dict(<<>>)
              /\ steps[2 * j - 1] = ToolCallStep(dispatches[j].name, Dict(<<>>))
              /\ (PastResult \/ j < Len(dispatches)) =>
                    /\ steps[2 * j].type = "tool_result"
                    /\ j <= Len(ToolMsgs)

\* An invocation with the payload "{" was dispatched with {} and answered, and
\* the model was called again.
C10_Witness ==
    /\ pc = "AwaitModel"
    /\ \E j \in 1..Len(dispatches) :
          /\ dispatches[j].payload = "{"
          /\ dispatches[j].arguments = Dict(<<>>)
          /\ j <= Len(ToolMsgs)

\* C11: a web_search dispatch with no search collaborator configured returns
\* exactly {error: "Search client not configured"} for every arguments value
\* the loop hands the dispatcher, raises nothing and calls no collaborator.
C11_SearchNotConfigured ==
    \A j \in 1..Len(dispatches) :
        (dispatches[j].name = "web_search" /\ ~options.search) =>
            /\ ~dispatches[j].exc
            /\ dispatches[j].result = ErrorMapping("Search client not configured")
            /\ dispatches[j].calls = <<>>

\* C12: when a model invocation fails, in a round or in the forced final call,
\* the failure leaves run_react_loop: the run has ended (no further model call,
\* dispatch or step), it has emitted no response step and returned no text,
\* and every dispatch made before has its two steps and its tool message.
C12_ModelFailurePropagates ==
    raised = "model" =>
        /\ pc = "Raised"
        /\ ~ENABLED Next
        /\ \A i \in 1..Len(steps) : steps[i].type # "response"
        /\ final_content = ""
        /\ Len(steps) = 2 * Len(dispatches)
        /\ Len(ToolMsgs) = Len(dispatches)
        /\ model_calls[Len(model_calls)].n_messages = Len(messages)

\* The forced final call failed after ten rounds of tools.
C12_Witness ==
    /\ raised = "model"
    /\ pc = "Raised"
    /\ Len(model_calls) = MAX_ITERATIONS + 1
    /\ Len(dispatches) >= MAX_ITERATIONS

\* The sequence starts with the system prompt, then the caller's history as
\* given, then the user message.
StartsWithContext ==
    /\ Len(messages) >= Len(history) + 2
    /\ messages[1] = Message("system", Str(SYSTEM_PROMPT))
    /\ SubSeq(messages, 2, Len(history) + 1) = history
    /\ messages[Len(history) + 2] = Message("user", Str(user_message))

\* The sequences of the model calls made so far have non-decreasing lengths, none
\* longer than the sequence as it is now.
CallsSeePrefixes ==
    \A i \in 1..Len(model_calls) :
        /\ model_calls[i].n_messages >= Len(history) + 2
        /\ model_calls[i].n_messages <= Len(messages)
        /\ i > 1 => model_calls[i - 1].n_messages < model_calls[i].n_messages

\* C13: once built, the Message sequence begins with the system prompt, every
\* history Message in the caller's order, and the user Message; every step of
\* the run leaves the sequence as it was or appends to it, so the sequence a
\* model call was given is a prefix of the sequence of every later call.
C13_SequenceAppendOnly ==
    /\ [](pc # "Start" => (StartsWithContext /\ CallsSeePrefixes))
    /\ [][pc # "Start" =>
             /\ Len(messages') >= Len(messages)
             /\ SubSeq(messages', 1, Len(messages)) = messages]_vars

\* A run with one earlier turn as history that called the model twice around a
\* tool round and returned.
C13_Witness ==
    /\ pc = "Responding"
    /\ Len(history) = 2
    /\ Len(model_calls) = 2
    /\ model_calls[1].n_messages = 4
    /\ model_calls[2].n_messages > 5
    /\ StartsWithContext

\* The invocations of the current response whose tool Message is appended.
Answered == IF pc \in {"Acting", "Dispatch", "Result"} THEN tc - 1 ELSE Len(message.tool_calls)

\* C14: the invocations of a response are dispatched one at a time in the order
\* returned: a dispatch starts only when every earlier dispatch has its tool
\* Message, at most one dispatch is without its tool Message, and the tool
\* Messages of the round follow the assistant Message in the order of the
\* invocations, each under the identifier of its invocation.
C14_SequentialDispatch ==
    /\ Len(dispatches) - Len(ToolMsgs) \in {0, 1}
    /\ pc \in {"Acting", "Dispatch"} => Len(ToolMsgs) = Len(dispatches)
    /\ \A j \in 1..Len(ToolMsgs) : ToolMsgs[j].tool_call_id = dispatches[j].id
    /\ pc = "Result" => dispatches[Len(dispatches)].id = message.tool_calls[tc].id
    /\ (pc \in {"Acting", "Dispatch", "Result", "Reasoning", "AwaitModel"}
        /\ message.tool_calls # <<>>) =>
          /\ messages[Len(messages) - Answered].role = "assistant"
          /\ \A i \in 1..Answered :
                /\ messages[Len(messages) - Answered + i].role = "tool"
                /\ messages[Len(messages) - Answered + i].tool_call_id
                       = message.tool_calls[i].id

\* The second of two invocations is about to be dispatched, after the tool
\* Message of the first.
C14_Witness ==
    /\ pc = "Dispatch"
    /\ tc = 2
    /\ messages[Len(messages)].role = "tool"
    /\ messages[Len(messages)].tool_call_id = message.tool_calls[1].id
    /\ message.tool_calls[1].name # message.tool_calls[2].name

\* The last n dispatches, oldest first.
LastDispatches(n) == SubSeq(dispatches, Len(dispatches) - n + 1, Len(dispatches))

\* C15: nothing is retried.  No invocation is dispatched twice, whether its
\* dispatch succeeded or failed; when a round is complete its invocations have
\* been dispatched once each, in order, so the dispatches of the run are the
\* invocations returned in the processed rounds; and after a failed model
\* invocation the run makes no further call.
C15_NoRetry ==
    /\ \A i, j \in 1..Len(dispatches) : dispatches[i].id = dispatches[j].id => i = j
    /\ Len(dispatches) >= iteration
    /\ (pc \in {"Reasoning", "AwaitModel", "AwaitFinal"} /\ message.tool_calls # <<>>) =>
          /\ Len(dispatches) >= Len(message.tool_calls)
          /\ \A i \in 1..Len(message.tool_calls) :
                LastDispatches(Len(message.tool_calls))[i].id = message.tool_calls[i].id
    /\ pc \in {"Dispatch", "Result"} =>
          Cardinality({j \in 1..Len(dispatches) : dispatches[j].id = tool_call.id})
              = IF pc = "Result" THEN 1 ELSE 0
    /\ raised = "model" => (~ENABLED InvokeModel /\ ~ENABLED Exhaust)

\* One round of two invocations, the first of which failed, then the answer:
\* two dispatches in all.
C15_Witness ==
    /\ pc = "Responding"
    /\ iteration = 1
    /\ Len(dispatches) = 2
    /\ Failed(1)
    /\ ~Failed(2)

\* The keys of a mapping, in order.
Keys(v) == [i \in 1..Len(v.c) |-> v.c[i][1]]

\* The search collaborator was called and returned.
SearchSucceeded(j) ==
    /\ dispatches[j].name = "web_search"
    /\ options.search
    /\ dispatches[j].calls # <<>>
    /\ dispatches[j].env.kind = "return"

\* C16: a web_search dispatch whose search collaborator is configured and
\* returns gives the mapping {query, totalResults, results}, every result a
\* mapping with the keys title, link, snippet, date, thumbnailUrl, siteName,
\* whatever provider produced the results; it gives no {error} mapping.
C16_SearchSuccessShape ==
    \A j \in 1..Len(dispatches) :
        SearchSucceeded(j) =>
            /\ Keys(dispatches[j].result) = <<"query", "totalResults", "results">>
            /\ LET results == DictGet(dispatches[j].result.c, "results", List(<<>>))
               IN /\ Len(results.c) = Len(dispatches[j].env.value.c)
                  /\ \A i \in 1..Len(results.c) :
                        /\ results.c[i].k = "dict"
                        /\ Keys(results.c[i]) = <<"title", "link", "snippet", "date",
                                                  "thumbnailUrl", "siteName">>

\* The tool Message of dispatch j holds the JSON text of its normalised result.
Serialised(j) ==
    ToolMsgs[j].content = Str(JsonDumps(JsonSerializable(dispatches[j].result)))

\* C17: normalising and serialising a tool result never raises and never aborts
\* the run, for every value a dispatch returns (temporal values, tuples,
\* unrecognised objects, mappings with any keys, nested): the run goes on from
\* every result to its tool Message, which holds the JSON text of the
\* normalised result.
C17_SerialisationTotal ==
    /\ raised # "serialise"
    /\ pc = "Result" => ~JsonDumpsRaises(JsonSerializable(result))
    /\ \A j \in 1..Len(ToolMsgs) : Serialised(j)
    /\ PastResult => Len(ToolMsgs) = Len(dispatches)

\* The step whose emission raised, when the notifier did.
LastStep == steps[Len(steps)]

\* C18: a failure of the step notifier, at a tool_call, tool_result or response
\* emission, leaves run_react_loop: the run has ended with that step as its
\* last (no later step, model call or dispatch), the invocation whose
\* tool_call emission failed is not dispatched, the result whose tool_result
\* emission failed gets no tool Message, and no text is returned.
C18_NotifierFailurePropagates ==
    raised = "notifier" =>
        /\ pc = "Raised"
        /\ options.on_step
        /\ ~ENABLED Next
        /\ notified = steps
        /\ final_content = ""
        /\ LastStep.type = "tool_call" =>
              (Len(steps) = 2 * Len(dispatches) + 1 /\ Len(ToolMsgs) = Len(dispatches))
        /\ LastStep.type = "tool_result" =>
              (Len(steps) = 2 * Len(dispatches) /\ Len(ToolMsgs) = Len(dispatches) - 1)
        /\ LastStep.type = "response" =>
              (Len(steps) = 2 * Len(dispatches) + 1 /\ Len(ToolMsgs) = Len(dispatches))

\* The notifier raised on the tool_call step of the second round.
C18_Witness ==
    /\ raised = "notifier"
    /\ LastStep.type = "tool_call"
    /\ iteration = 1
    /\ Len(dispatches) = 1

\* C19: a notifier that does not raise changes nothing the model or the caller
\* observes.  A run without a notifier hands nothing to one and dispatches
\* each invocation with the arguments parsed from its payload; so does a run
\* with a notifier, and its tool Messages hold the results of those dispatches.
C19_NotifierTransparent ==
    /\ ~options.on_step => notified = <<>>
    /\ options.on_step => notified = steps
    /\ pc = "Dispatch" => arguments = ParseArguments(tool_call.arguments).value
    /\ \A j \in 1..Len(dispatches) :
          dispatches[j].arguments = ParseArguments(dispatches[j].payload).value

\* The locals and the record of a run as they are when run_react_loop is entered.
FreshRun ==
    /\ pc = "Start"
    /\ iteration = 0
    /\ messages = <<>>
    /\ message = NoMessage
    /\ tc = 0
    /\ arguments = NoneV
    /\ result = NoneV
    /\ steps = <<>>
    /\ notified = <<>>
    /\ model_calls = <<>>
    /\ dispatches = <<>>
    /\ final_content = ""
    /\ raised = ""
    /\ ~varied

\* C20: no step of a run changes the caller's history, so it is the same list
\* on every exit, normal or abnormal; and a run entered after another starts
\* from the state a first run starts from, with the same arguments, so it
\* behaves as the first did under the same model behaviour and tool outcomes.
C20_HistoryUntouched ==
    /\ [][history' = history]_vars
    /\ [](pc = "Start" => FreshRun)
    /\ [][pc' = "Start" => (pc \in {"Responding", "Exhausted", "Raised"}
                            /\ UNCHANGED <<history, user_message, options>>)]_vars

\* A run on a history of one earlier turn ended abnormally after a tool round,
\* the history as the caller gave it.
C20_Witness ==
    /\ pc = "Raised"
    /\ history = <<Message("user", Str("hello")), Message("assistant", Str("hi"))>>
    /\ Len(ToolMsgs) > 0
    /\ SubSeq(messages, 2, 3) = history

\* The Messages that belong to the run that does not have the loop.
ForeignMessages ==
    IF current = 1
    THEN {SecondHistory[i] : i \in 1..Len(SecondHistory)}
         \cup {Message("user", Str(SecondUserMessage))}
    ELSE UNION {{h[i] : i \in 1..Len(h)} : h \in Histories}
         \cup {Message("user", Str(u)) : u \in UserMessages}

\* The run that has the loop is as a run alone is: its own arguments, its
\* sequence built from them and free of the other run's Messages, its model
\* calls on its own growing sequence, its steps those of its own dispatches,
\* and its returned text the content of its own last response.
OwnRun ==
    /\ IF current = 1
       THEN history \in Histories /\ user_message \in UserMessages
       ELSE history = SecondHistory /\ user_message = SecondUserMessage
    /\ pc # "Start" =>
          /\ StartsWithContext
          /\ CallsSeePrefixes
          /\ \A i \in 1..Len(messages) : messages[i] \notin ForeignMessages
    /\ Len(model_calls) <= MAX_ITERATIONS + 1
    /\ Len(model_calls) \in {iteration, iteration + 1}
    /\ Len(steps) \in {2 * Len(dispatches) - 1, 2 * Len(dispatches), 2 * Len(dispatches) + 1}
    /\ PairedSteps(Len(dispatches) - 1)
    /\ Len(ToolMsgs) \in {Len(dispatches) - 1, Len(dispatches)}
    /\ Returned =>
          /\ final_content = ResponseText
          /\ steps[Len(steps)] = ResponseStep(final_content)
          /\ Len(steps) = 2 * Len(dispatches) + 1

\* C21: two runs with disjoint histories interleaved where they await.  Each
\* run is, whenever it has the loop, as a run alone is (its Message sequence,
\* steps, model calls and returned text are its own, no Message of the other
\* run is in its sequence); a step of one run leaves the suspended run as it
\* was, and resuming a run gives it back exactly what it was suspended with.
C21_RunsIsolated ==
    /\ [](other # NoRun => OwnRun)
    /\ [][(other # NoRun /\ current' = current) => other' = other]_vars
    /\ [][current' # current => (other' = RunState /\ RunState' = other)]_vars

\* Both runs returned, the second after a tool round, each on its own sequence,
\* after giving the loop to each other in between.
C21_Witness ==
    /\ other # NoRun
    /\ current = 2
    /\ pc = "Responding"
    /\ iteration = 1
    /\ final_content = "4"
    /\ other.pc = "Responding"
    /\ other.iteration = 2
    /\ Len(other.messages) = Len(other.history) + 2 + 5

\* C22: every invocation the loop has processed has exactly one tool Message,
\* under the identifier of the invocation and holding the JSON text of the
\* normalised result; it stands behind the assistant Message of its round
\* (after it come only tool Messages of the same round) and is appended before
\* the next model invocation: whenever a model invocation is under way the
\* tool Messages are as many as the dispatches.  (Only a run ended by a failure
\* has a dispatch without its Message.)
C22_OneToolMessagePerInvocation ==
    /\ Len(ToolMsgs) <= Len(dispatches)
    /\ \A j \in 1..Len(ToolMsgs) :
          ToolMsgs[j] = [role |-> "tool", tool_call_id |-> dispatches[j].id,
                         content |-> Str(JsonDumps(JsonSerializable(dispatches[j].result)))]
    /\ \A i, j \in 1..Len(ToolMsgs) :
          ToolMsgs[i].tool_call_id = ToolMsgs[j].tool_call_id => i = j
    /\ \A i \in 1..Len(messages) :
          messages[i].role = "tool" =>
              (i > Len(history) + 3 /\ messages[i - 1].role \in {"assistant", "tool"})
    /\ pc \in {"AwaitModel", "AwaitFinal"} =>
          /\ Len(ToolMsgs) = Len(dispatches)
          /\ model_calls[Len(model_calls)].n_messages = Len(messages)
    /\ (raised = "" /\ pc # "Result") => Len(ToolMsgs) = Len(dispatches)

\* The second model invocation of a run, made on a sequence holding the tool
\* Messages of the two invocations of the first round.
C22_Witness ==
    /\ pc = "AwaitModel"
    /\ Len(model_calls) = 2
    /\ Len(dispatches) = 2
    /\ Len(ToolMsgs) = 2
    /\ ToolMsgs[2].tool_call_id = "call_1_2"

\* The model invocations of rounds (made with the Tool Catalog) that have returned.
RoundsAnswered ==
    LET made == Cardinality({i \in 1..Len(model_calls) : model_calls[i].tools})
        pending == \/ pc = "AwaitModel"
                   \/ (raised = "model" /\ model_calls[Len(model_calls)].tools)
    IN IF pending THEN made - 1 ELSE made

\* The indices of the assistant Messages the run has appended.
AssistantAt == {i \in Len(history) + 3..Len(messages) : messages[i].role = "assistant"}

\* C23: every round whose model invocation has returned has appended exactly one
\* assistant Message, holding the content of the response (absent or not), with
\* or without tool invocations; it is appended before any tool_call step,
\* dispatch or tool Message of the round: when the first invocation of the
\* round is about to be processed it is the last Message, and in the rest of
\* the round only tool Messages of the round follow it.
C23_AssistantMessagePerRound ==
    /\ Cardinality(AssistantAt) = RoundsAnswered
    /\ pc \in {"Acting", "Dispatch", "Result", "Responding"} =>
          /\ AssistantAt # {}
          /\ LET last == CHOOSE i \in AssistantAt : \A k \in AssistantAt : k <= i
             IN /\ messages[last] = Message("assistant", message.content)
                /\ Len(messages) - last = Answered
    /\ (pc = "Acting" /\ tc = 1) =>
          /\ messages[Len(messages)] = Message("assistant", message.content)
          /\ Len(steps) = 2 * Len(dispatches)
          /\ Len(ToolMsgs) = Len(dispatches)
          /\ Len(dispatches) >= iteration

\* A response without content that asks for a tool, in the second round: its
\* assistant Message is the last one and nothing of the round has happened.
C23_Witness ==
    /\ pc = "Acting"
    /\ tc = 1
    /\ iteration = 1
    /\ message.content = NoneV
    /\ messages[Len(messages)] = Message("assistant", NoneV)
    /\ Cardinality(AssistantAt) = 2

\* C24: the tool_result step of an invocation carries the result as the
\* dispatcher returned it, not the normalised value (where the two differ the
\* step's value is the one before normalisation), while the tool Message of the
\* same invocation holds the JSON text of the normalised value.
C24_StepCarriesRawResult ==
    \A j \in 1..Len(dispatches) :
        LET raw == dispatches[j].result
        IN /\ 2 * j <= Len(steps) =>
                 /\ steps[2 * j].type = "tool_result"
                 /\ steps[2 * j].result = raw
                 /\ JsonSerializable(raw) # raw => steps[2 * j].result # JsonSerializable(raw)
           /\ j <= Len(ToolMsgs) =>
                 /\ 2 * j <= Len(steps)
                 /\ ToolMsgs[j].content = Str(JsonDumps(JsonSerializable(steps[2 * j].result)))

\* A query returned a record with a date, a tuple and a Decimal: the step holds
\* them, the tool Message their JSON text.
C24_Witness ==
    /\ pc = "AwaitModel"
    /\ \E j \in 1..Len(ToolMsgs) :
          /\ dispatches[j].result = Dict(<< <<"records", List(<<RichRecord>>)>> >>)
          /\ steps[2 * j].result = Dict(<< <<"records", List(<<RichRecord>>)>> >>)
          /\ ToolMsgs[j].content.a
               = "{\"records\": [{\"since\": \"2024-01-02\", \"pair\": [1, \"a\"], \"other\": \"1.5\"}]}"

\* The collaborator operation a recognised tool name stands for.
Designated(name) ==
    CASE name = "memory_query" -> "memory.query"
      [] name = "memory_write" -> "memory.write"
      [] name = "memory_schema" -> "memory.schema"
      [] name = "embedding" -> "openai.embeddings.create"
      [] name = "web_search" -> "search.search"

\* C25: every dispatch of a recognised tool name (web_search when a search
\* collaborator is configured) makes exactly one collaborator call, to the
\* operation the name stands for, and a memory operation's value is the tool
\* result unchanged.
C25_OneDesignatedCall ==
    \A j \in 1..Len(dispatches) :
        (dispatches[j].name \in FiveNames
         /\ (dispatches[j].name = "web_search" => options.search)) =>
            /\ Len(dispatches[j].calls) = 1
            /\ dispatches[j].calls[1].op = Designated(dispatches[j].name)
            /\ (dispatches[j].name \in {"memory_query", "memory_write", "memory_schema"}
                /\ dispatches[j].env.kind = "return") =>
                  dispatches[j].result = dispatches[j].env.value

\* What each recognised name passes to its collaborator when the arguments
\* mapping names none of the keys.
DefaultArgs(name) ==
    CASE name \in {"memory_query", "memory_write"} -> <<Str(""), Dict(<<>>)>>
      [] name = "memory_schema" -> <<>>
      [] name = "embedding" -> <<Str("")>>
      [] name = "web_search" -> <<Str(""), Str("search"), NoneV>>

\* C27: when the arguments mapping lacks the keys a tool reads, the dispatch
\* still delegates with the defaults (cypher "", params {}, text "", query "",
\* result count absent, search type "search"); it raises nothing, and an error
\* result carries only what the collaborator itself raised.
C27_MissingKeysDefault ==
    \A j \in 1..Len(dispatches) :
        (dispatches[j].arguments = Dict(<<>>)
         /\ dispatches[j].name \in FiveNames
         /\ (dispatches[j].name = "web_search" => options.search)) =>
            /\ ~dispatches[j].exc
            /\ dispatches[j].calls =
                  <<Call(Designated(dispatches[j].name), DefaultArgs(dispatches[j].name))>>
            /\ dispatches[j].env.kind = "raise" =>
                  dispatches[j].result = ErrorMapping(dispatches[j].env.message)
            /\ (dispatches[j].env.kind = "return" /\ dispatches[j].name # "web_search") =>
                  dispatches[j].result =
                      (IF dispatches[j].name = "embedding"
                       THEN Dict(<< <<"vector", dispatches[j].env.value>> >>)
                       ELSE dispatches[j].env.value)
            /\ (dispatches[j].env = Return(List(<<>>)) /\ dispatches[j].name = "web_search") =>
                  dispatches[j].result =
                      Dict(<< <<"query", Str("")>>, <<"totalResults", NoneV>>,
                              <<"results", List(<<>>)>> >>)

\* A web search dispatched with an empty arguments mapping has returned.
C27_Witness ==
    /\ pc = "Result"
    /\ dispatches[1].name = "web_search"
    /\ dispatches[1].payload = "{}"
    /\ dispatches[1].arguments = Dict(<<>>)
    /\ dispatches[1].env = Return(List(<<>>))
    /\ dispatches[1].calls # <<>>

\* The positions of the response steps among the steps emitted.
ResponseSteps == {i \in 1..Len(steps) : steps[i].type = "response"}

\* C29: a run that returns has emitted exactly one response step, as its last
\* step, whose content is the text returned, on the ordinary path and after the
\* forced final call; no run emits a response step and then another step.
C29_OneResponseStep ==
    /\ ResponseSteps \subseteq {Len(steps)}
    /\ Returned =>
          /\ ResponseSteps = {Len(steps)}
          /\ steps[Len(steps)].content = final_content
          /\ ~ENABLED Next

\* A run that ran out of rounds has returned the text of the forced final call.
C29_Witness ==
    /\ pc = "Exhausted"
    /\ final_content = "4"
    /\ Len(steps) > 1
    /\ steps[Len(steps)].type = "response"

\* The two shapes of a tool result.
IsErrorShape(res) ==
    /\ res.k = "dict"
    /\ Keys(res) = <<"error">>
    /\ res.c[1][2].k = "str"

IsSuccessShape(res) ==
    /\ res.k = "dict"
    /\ res.c # <<>>
    /\ \A i \in 1..Len(res.c) : res.c[i][1] # "error"

\* C30: every result of the dispatcher is either an error mapping whose only
\* key is error, with a string value, or a success payload without an error
\* key; it is never both and never an empty mapping.
C30_ResultShapes ==
    /\ \A j \in 1..Len(dispatches) :
          /\ IsErrorShape(dispatches[j].result) \/ IsSuccessShape(dispatches[j].result)
          /\ ~(IsErrorShape(dispatches[j].result) /\ IsSuccessShape(dispatches[j].result))
          /\ (dispatches[j].env.kind = "raise" \/ dispatches[j].name \notin FiveNames
              \/ (dispatches[j].name = "web_search" /\ ~options.search)) =>
                IsErrorShape(dispatches[j].result)
    /\ pc = "Result" => IsErrorShape(result) \/ IsSuccessShape(result)

\* An embedding dispatch whose collaborator raised, and one that returned.
C30_Witness ==
    /\ pc = "Result"
    /\ dispatches[1].name = "embedding"
    /\ dispatches[1].calls # <<>>
    /\ \/ dispatches[1].env.kind = "raise" /\ IsErrorShape(result)
       \/ dispatches[1].env.kind = "return" /\ IsSuccessShape(result)

-----------------------------------------------------------------------------
(* _json_serializable alone: the function applied to nested values.        *)

\* Elements of a container the function is applied to.
MaxLen == 2

\* Values without elements: primitives, a temporal value, a neo4j object and
\* an object of a type the function has no case for.
Atoms ==
    { NoneV, [k |-> "bool", a |-> "true", c |-> <<>>], Int("1"), Str("a"),
      [k |-> "date", a |-> "2024-01-02", c |-> <<>>],
      [k |-> "neo4j", a |-> "<Node id=1>", c |-> <<>>],
      [k |-> "Decimal", a |-> "1.5", c |-> <<>>] }

ContainerKinds == {"list", "tuple", "dict", "Record"}

\* A container of a kind over the elements: a dict or Record stores the i-th
\* element under the i-th field name.
FieldName(i) == <<"a", "b", "c", "d">>[i]

Container(kind, elems) ==
    [k |-> kind, a |-> "",
     c |-> IF kind \in {"dict", "Record"}
           THEN [i \in 1..Len(elems) |-> <<FieldName(i), elems[i]>>]
           ELSE elems]

Containers(S, n) ==
    { Container(kind, elems) :
        kind \in ContainerKinds, elems \in UNION {[1..m -> S] : m \in 0..n} }

\* Values nested two deep.
NestedValues ==
    Atoms \cup Containers(Atoms \cup Containers(Atoms, 1), MaxLen)

NormalizeInit ==
    /\ history = <<>>
    /\ user_message \in UserMessages
    /\ options = [search |-> FALSE, on_step |-> FALSE]
    /\ pc = "Normalize"
    /\ iteration = 0
    /\ messages = <<>>
    /\ message = [content |-> NoneV, tool_calls |-> <<>>]
    /\ arguments \in NestedValues
    /\ tc = 1
    /\ result = NoneV
    /\ final_content = ""
    /\ raised = ""
    /\ steps = <<>>
    /\ notified = <<>>
    /\ model_calls = <<>>
    /\ dispatches = <<>>
    /\ varied = FALSE
    /\ other = NoRun
    /\ current = 1
    /\ store = InitialStore

\* One call _json_serializable(obj): `arguments` holds obj, `result` the value returned.
Normalize ==
    /\ pc = "Normalize"
    /\ UNCHANGED <<other, current, store>>
    /\ result' = JsonSerializable(arguments)
    /\ pc' = "Normalized"
    /\ UNCHANGED <<history, user_message, options, iteration, messages, message, tc,
                   arguments, final_content, raised, steps, notified, model_calls,
                   dispatches, varied>>

NormalizeNext == Normalize

NormalizeSpec == NormalizeInit /\ [][NormalizeNext]_vars

\* A value made of primitives, lists and mappings only.
RECURSIVE IsPlain(_)
IsPlain(v) ==
    \/ IsPrimitive(v)
    \/ v.k = "list" /\ \A i \in 1..Len(v.c) : IsPlain(v.c[i])
    \/ v.k = "dict" /\ \A i \in 1..Len(v.c) : IsPlain(v.c[i][2])

\* C28: _json_serializable returns primitives unchanged, turns a list or tuple
\* into the list of its normalised elements in the same order and of the same
\* length, turns a mapping into a mapping with the same keys and normalised
\* values, returns a value of primitives, lists and mappings only, and applied
\* to its own result returns that result.
C28_NormalizerIdempotent ==
    pc = "Normalized" =>
        /\ IsPrimitive(arguments) => result = arguments
        /\ arguments.k \in {"list", "tuple"} =>
              /\ result.k = "list"
              /\ Len(result.c) = Len(arguments.c)
              /\ \A i \in 1..Len(arguments.c) : result.c[i] = JsonSerializable(arguments.c[i])
        /\ arguments.k \in {"dict", "Record"} =>
              /\ result.k = "dict"
              /\ Keys(result) = Keys(arguments)
              /\ \A i \in 1..Len(arguments.c) :
                    result.c[i][2] = JsonSerializable(arguments.c[i][2])
        /\ IsPlain(result)
        /\ JsonSerializable(result) = result
        /\ JsonSerializable(JsonSerializable(arguments)) = JsonSerializable(arguments)

\* A list holding a tuple and a mapping holding a date have been normalised.
C28_Witness ==
    /\ pc = "Normalized"
    /\ arguments = List(<<Tuple(<<Int("1")>>),
                          Dict(<< <<"a", [k |-> "date", a |-> "2024-01-02", c |-> <<>>]>> >>)>>)
    /\ result = List(<<List(<<Int("1")>>), Dict(<< <<"a", Str("2024-01-02")>> >>)>>)

\* C26: a memory_query dispatch leaves the memory database as it found it,
\* whatever cypher text and parameters the model supplies; a dispatch that
\* changes the database is a memory_write dispatch.
C26_QueryReadOnly ==
    \A j \in 1..Len(dispatches) :
        /\ dispatches[j].name = "memory_query" =>
              dispatches[j].store_after = dispatches[j].store_before
        /\ dispatches[j].store_after # dispatches[j].store_before =>
              dispatches[j].name = "memory_write"

\* The tool invocations a Message records; a Message without the field records none.
InvocationsOf(m) == IF "tool_calls" \in DOMAIN m THEN m.tool_calls ELSE <<>>

\* C31: in every Message sequence sent to the model, the tool-call identifier of
\* each tool Message is the identifier of a tool invocation recorded in an
\* earlier assistant Message of the sequence.
C31_ToolMessagesAnswerRecordedInvocations ==
    pc \in {"AwaitModel", "AwaitFinal"} =>
        \A i \in 1..Len(messages) :
            messages[i].role = "tool" =>
                \E k \in 1..(i - 1) :
                    /\ messages[k].role = "assistant"
                    /\ \E n \in 1..Len(InvocationsOf(messages[k])) :
                          InvocationsOf(messages[k])[n].id = messages[i].tool_call_id

\* C32: the arguments of every tool_call step and of every dispatch are a
\* mapping, whatever payload the model returned; a recognised tool called with
\* a payload that is well-formed JSON but no object is delegated with the
\* default argument values and not answered with an error.
C32_ArgumentsAlwaysMapping ==
    /\ \A i \in 1..Len(steps) :
          steps[i].type = "tool_call" => steps[i].arguments.k = "dict"
    /\ \A j \in 1..Len(dispatches) :
          /\ dispatches[j].arguments.k = "dict"
          /\ (dispatches[j].payload \in {"[]", "null"}
              /\ dispatches[j].name \in FiveNames
              /\ (dispatches[j].name = "web_search" => options.search)) =>
                dispatches[j].calls =
                    <<Call(Designated(dispatches[j].name), DefaultArgs(dispatches[j].name))>>

\* The result of the dispatcher's `case _`.
UnknownTool(name) == Dict(<< <<"error", Str("Unknown tool: " \o name)>> >>)

\* C33: the names the catalogue offers are the names the dispatcher has a case
\* for; a dispatch under a catalogued name never returns the "Unknown tool"
\* error, and a dispatch under any other name returns it.
C33_CatalogMatchesDispatcher ==
    /\ CatalogNames = DispatcherNames
    /\ CatalogNames = FiveNames
    /\ \A j \in 1..Len(dispatches) :
          (dispatches[j].name \in CatalogNames) <=>
              (dispatches[j].result # UnknownTool(dispatches[j].name))

\* A catalogued name and a name outside the catalogue have been dispatched.
C33_Witness ==
    /\ pc = "Result"
    /\ \/ dispatches[1].name = "embedding" /\ dispatches[1].payload = ObjPayload
          /\ dispatches[1].env.kind = "return"
       \/ dispatches[1].name = "frobnicate" /\ dispatches[1].payload = "{}"

\* The kinds of step run_react_loop constructs (lines 152, 166, 176, 201).
EmittedKinds == {"tool_call", "tool_result", "response"}

\* C34: every step emitted, and every step handed to the notifier, is a
\* tool_call, tool_result or response step: a response that holds text next to
\* tool invocations gives no thought step, and neither an error result of a
\* tool nor a failing run gives an error step.
C34_OnlyThreeStepKinds ==
    /\ \A i \in 1..Len(steps) : steps[i].type \in EmittedKinds
    /\ \A i \in 1..Len(notified) : notified[i].type \in EmittedKinds
    /\ (pc = "Acting" /\ tc = 1) =>
          (steps = <<>> \/ steps[Len(steps)].type = "tool_result")
    /\ pc = "Raised" =>
          (steps = <<>> \/ steps[Len(steps)].type \in EmittedKinds)

\* A round whose response held text next to its invocation has been answered,
\* and a tool has returned an error mapping.
C34_Witness ==
    \/ /\ pc = "Reasoning"
       /\ message.content = ToolRoundText
       /\ Len(steps) = 2
    \/ /\ pc = "Reasoning"
       /\ Len(steps) = 2
       /\ steps[2].type = "tool_result"
       /\ IsErrorShape(steps[2].result)
       /\ steps[2].name = "frobnicate"

-----------------------------------------------------------------------------
(* The CLI session (cli.py 262-323): the REPL reads a line, handles blank   *)
(* input and slash commands itself, and runs run_react_loop on every other  *)
(* line with the session's history.  `user_message` holds the line read.    *)
(* The tool rounds of the runs of a session are the default ones.           *)

\* Turns of one session that return.
MaxTurns == 2

\* The lines the user may enter.
CliInputs == {"", "  ", "/help", " /help", "/schema", "/quit", "/exit", "2+2?"}

\* str.strip of the lines above.
Strip(s) ==
    CASE s = "  " -> ""
      [] s = " /help" -> "/help"
      [] OTHER -> s

\* The locals of run_react_loop before a run, as the REPL leaves them.
NoLocals ==
    /\ iteration' = 0
    /\ messages' = <<>>
    /\ message' = NoMessage
    /\ tc' = 0
    /\ arguments' = NoneV
    /\ result' = NoneV
    /\ final_content' = ""
    /\ raised' = ""
    /\ steps' = <<>>
    /\ notified' = <<>>
    /\ model_calls' = <<>>
    /\ dispatches' = <<>>
    /\ varied' = TRUE

\* Line 263: the session starts with an empty history; on_step is always set
\* (line 297), the search client is configured or not (lines 242-248).
CliInit ==
    /\ history = <<>>
    /\ user_message = ""
    /\ options \in [search : BOOLEAN, on_step : {TRUE}]
    /\ pc = "Prompt"
    /\ iteration = 0
    /\ messages = <<>>
    /\ message = NoMessage
    /\ tc = 0
    /\ arguments = NoneV
    /\ result = NoneV
    /\ final_content = ""
    /\ raised = ""
    /\ steps = <<>>
    /\ notified = <<>>
    /\ model_calls = <<>>
    /\ dispatches = <<>>
    /\ varied = TRUE
    /\ other = NoRun
    /\ current = 1
    /\ store = InitialStore

\* Line 274: console.input returns a line.
CliRead ==
    /\ pc = "Prompt"
    /\ UNCHANGED <<other, current, store>>
    /\ \E line \in CliInputs : user_message' = line
    /\ pc' = "Input"
    /\ UNCHANGED <<history, options, iteration, messages, message, tc, arguments, result,
                   final_content, raised, steps, notified, model_calls, dispatches, varied>>

\* Line 274 and 318-320: console.input raises EOFError; the session ends.
CliEndOfInput ==
    /\ pc = "Prompt"
    /\ UNCHANGED <<other, current, store>>
    /\ pc' = "Closed"
    /\ UNCHANGED <<history, user_message, options, iteration, messages, message, tc,
                   arguments, result, final_content, raised, steps, notified, model_calls,
                   dispatches, varied>>

\* Lines 276-277: a blank line is skipped.
CliBlank ==
    /\ pc = "Input"
    /\ UNCHANGED <<other, current, store>>
    /\ Strip(user_message) = ""
    /\ pc' = "Prompt"
    /\ UNCHANGED <<history, user_message, options, iteration, messages, message, tc,
                   arguments, result, final_content, raised, steps, notified, model_calls,
                   dispatches, varied>>

\* Lines 280-290: /quit and /exit end the session, /help prints, /schema calls
\* memory.schema(), whose failure ends the session (lines 321-326).
CliCommand ==
    /\ pc = "Input"
    /\ UNCHANGED <<other, current, store>>
    /\ Strip(user_message) \in {"/quit", "/exit", "/help", "/schema"}
    /\ \/ Strip(user_message) \in {"/quit", "/exit"} /\ pc' = "Closed"
       \/ Strip(user_message) = "/help" /\ pc' = "Prompt"
       \/ Strip(user_message) = "/schema" /\ pc' \in {"Prompt", "Closed"}
    /\ UNCHANGED <<history, user_message, options, iteration, messages, message, tc,
                   arguments, result, final_content, raised, steps, notified, model_calls,
                   dispatches, varied>>

\* Lines 292-302: every other line starts run_react_loop(user_input, history, options).
CliTurn ==
    /\ pc = "Input"
    /\ UNCHANGED <<other, current, store>>
    /\ Strip(user_message) \notin {"", "/quit", "/exit", "/help", "/schema"}
    /\ Len(history) < 2 * MaxTurns
    /\ pc' = "Start"
    /\ NoLocals
    /\ UNCHANGED <<history, user_message, options>>

\* A returning turn that records the user input only.
CliAppend_UserOnly ==
    /\ pc \in {"Responding", "Exhausted"}
    /\ UNCHANGED <<other, current, store>>
    /\ history' = history \o <<Message("user", Str(user_message))>>
    /\ pc' = "Prompt"
    /\ NoLocals
    /\ UNCHANGED <<user_message, options>>

\* Lines 302-306: the run has returned; the input and the response are appended.
CliAppend ==
    /\ pc \in {"Responding", "Exhausted"}
    /\ UNCHANGED <<other, current, store>>
    /\ history' = history \o <<Message("user", Str(user_message)),
                               Message("assistant", Str(final_content))>>
    /\ pc' = "Prompt"
    /\ NoLocals
    /\ UNCHANGED <<user_message, options>>

\* Lines 321-326: the run has raised; the error is printed and the session ends.
CliError ==
    /\ pc = "Raised"
    /\ UNCHANGED <<other, current, store>>
    /\ pc' = "Closed"
    /\ UNCHANGED <<history, user_message, options, iteration, messages, message, tc,
                   arguments, result, final_content, raised, steps, notified, model_calls,
                   dispatches, varied>>

\* Ctrl-C while the run awaits: a KeyboardInterrupt raised in the coroutine is
\* caught at lines 316-317 and the REPL goes on; a cancellation of the main task
\* by the event loop's runner is not caught and ends the session.
CliInterrupt ==
    /\ pc \in {"AwaitModel", "Dispatch", "AwaitFinal"}
    /\ UNCHANGED <<other, current, store>>
    /\ pc' \in {"Prompt", "Closed"}
    /\ NoLocals
    /\ UNCHANGED <<history, user_message, options>>

CliNext ==
    \/ CliRead
    \/ CliEndOfInput
    \/ CliBlank
    \/ CliCommand
    \/ CliTurn
    \/ Next
    \/ CliAppend
    \/ CliError
    \/ CliInterrupt

CliSpec == CliInit /\ [][CliNext]_vars

\* The history is user and assistant Messages in turn order.
Alternating(h) ==
    /\ Len(h) % 2 = 0
    /\ \A i \in 1..Len(h) :
          /\ h[i].role = (IF i % 2 = 1 THEN "user" ELSE "assistant")
          /\ DOMAIN h[i] = {"role", "content"}
          /\ h[i].content.k = "str"

\* A step that ends a returned run by appending the input and the response.
TurnAppended ==
    /\ pc \in {"Responding", "Exhausted"}
    /\ history' = history \o <<Message("user", Str(user_message)),
                               Message("assistant", Str(final_content))>>

\* C35: in the CLI session the history is always an even number of Messages,
\* user and assistant in turn, never a tool or system Message; the history
\* changes only when a run has returned, and then by exactly the user input and
\* the returned response; a run that raises or is interrupted, a slash command
\* and a blank line leave it as it is.
C35_CliHistoryAlternates ==
    /\ [](Alternating(history))
    /\ [][history' # history => TurnAppended]_vars
    /\ [][(pc \in {"Responding", "Exhausted"}) => TurnAppended]_vars
    /\ [][(pc \in {"Raised", "Input", "Prompt"} \/ pc' = "Closed") =>
            history' = history]_vars

\* Two turns have returned, the second after the rounds ran out.
C35_Witness ==
    /\ pc = "Prompt"
    /\ Len(history) = 4
    /\ history[3] = Message("user", Str("2+2?"))
    /\ history[2] = Message("assistant", Str("4"))
    /\ history[4] = Message("assistant", Str(""))

-----------------------------------------------------------------------------
(* SerperProvider.search alone (search/providers.py 67-154): one call with   *)
(* a query and SearchOptions, under every outcome of the HTTP request.       *)
(* `arguments` holds the call's arguments, `result` what the call returned   *)
(* or raised, `dispatches` the outcome of the request.                       *)

\* The values of opts.type: the four search types, a text that is none of
\* them, and a list, which _web_search passes on unexamined (loop.py 295-298).
SearchTypes ==
    { Str("search"), Str("news"), Str("images"), Str("videos"), Str("bogus"),
      List(<<Str("news")>>) }

SerperCalls ==
    [query : {Str("q")}, type : SearchTypes, num_results : {NoneV, Int("3")}]

\* What self._client.post may do: raise a timeout, another transport error or
\* any other exception, or return a response with a status and a body that is
\* a JSON object, JSON that is no object, or no JSON.
HttpStatuses == {200, 204, 301, 400, 401, 403, 404, 429, 500, 503}

HttpOutcomes ==
    { [kind |-> "raise", class |-> c, status |-> 0, body |-> ""] :
        c \in {"httpx.ReadTimeout", "httpx.ConnectError", "RuntimeError"} }
    \cup { [kind |-> "response", class |-> "", status |-> st, body |-> b] :
             st \in HttpStatuses, b \in {"object", "array", "text"} }

\* An exception: its class and, for a SearchError, its code.
Raised(class, code) == [kind |-> "raise", class |-> class, code |-> code, value |-> NoneV]
SearchReturns(v) == [kind |-> "return", class |-> "", code |-> "", value |-> v]

SearchErrorClasses == {"SearchAuthError", "SearchRateLimitError", "SearchError"}

\* Lines 112-139, the body of the try statement.
SerperTryBody(http) ==
    IF http.kind = "raise" THEN Raised(http.class, "")
    ELSE IF http.status \in {401, 403} THEN Raised("SearchAuthError", "AUTH_ERROR")
    ELSE IF http.status = 429 THEN Raised("SearchRateLimitError", "RATE_LIMIT_ERROR")
    ELSE IF http.status >= 400 THEN Raised("SearchError", "HTTP_ERROR")
    ELSE IF http.body = "text" THEN Raised("JSONDecodeError", "")
    ELSE IF http.body = "array" THEN Raised("AttributeError", "")
    ELSE SearchReturns(List(<<SerperItem>>))

\* Lines 141-154, the except clauses in their order: httpx.TimeoutException,
\* httpx.RequestError, the SearchError classes (raised again), Exception.
SerperHandlers(r) ==
    IF r.kind = "return" THEN r
    ELSE IF r.class = "httpx.ReadTimeout" THEN Raised("SearchError", "TIMEOUT_ERROR")
    ELSE IF r.class = "httpx.ConnectError" THEN Raised("SearchError", "REQUEST_ERROR")
    ELSE IF r.class \in SearchErrorClasses THEN r
    ELSE Raised("SearchError", "UNKNOWN_ERROR")

\* SerperProvider.search: endpoints.get(opts.type, "/search") at line 93 is
\* before the try statement and raises TypeError on an unhashable type.
SerperSearch(call, http) ==
    IF call.type.k \notin {"str", "None", "int"} THEN Raised("TypeError", "")
    ELSE SerperHandlers(SerperTryBody(http))

\* Whether the call reaches the request.
SerperRequests(call) == call.type.k \in {"str", "None", "int"}

SerperInit ==
    /\ history = <<>>
    /\ user_message \in UserMessages
    /\ options = [search |-> TRUE, on_step |-> FALSE]
    /\ pc = "Search"
    /\ iteration = 0
    /\ messages = <<>>
    /\ message = NoMessage
    /\ arguments \in SerperCalls
    /\ tc = 0
    /\ result = NoneV
    /\ final_content = ""
    /\ raised = ""
    /\ steps = <<>>
    /\ notified = <<>>
    /\ model_calls = <<>>
    /\ dispatches = <<>>
    /\ varied = FALSE
    /\ other = NoRun
    /\ current = 1
    /\ store = InitialStore

\* One call of SerperProvider.search.
Search ==
    /\ pc = "Search"
    /\ UNCHANGED <<other, current, store>>
    /\ \E http \in (IF SerperRequests(arguments) THEN HttpOutcomes
                    ELSE {[kind |-> "none", class |-> "", status |-> 0, body |-> ""]}) :
          /\ result' = SerperSearch(arguments, http)
          /\ dispatches' = <<[env |-> http]>>
    /\ pc' = "Searched"
    /\ UNCHANGED <<history, user_message, options, iteration, messages, message, tc,
                   arguments, final_content, raised, steps, notified, model_calls, varied>>

SerperNext == Search

SerperSpec == SerperInit /\ [][SerperNext]_vars

\* The code a failure has by its cause.
CodeByCause(http) ==
    CASE http.kind = "response" /\ http.status \in {401, 403} -> "AUTH_ERROR"
      [] http.kind = "response" /\ http.status = 429 -> "RATE_LIMIT_ERROR"
      [] http.kind = "response" /\ http.status >= 400 /\ http.status \notin {401, 403, 429}
            -> "HTTP_ERROR"
      [] http.kind = "raise" /\ http.class = "httpx.ReadTimeout" -> "TIMEOUT_ERROR"
      [] http.kind = "raise" /\ http.class = "httpx.ConnectError" -> "REQUEST_ERROR"
      [] OTHER -> "UNKNOWN_ERROR"

\* C36: every failure of SerperProvider.search is a SearchError whose code
\* follows from the cause: 401 and 403 give AUTH_ERROR, 429 RATE_LIMIT_ERROR,
\* any other status from 400 on HTTP_ERROR, a timeout TIMEOUT_ERROR, any other
\* transport failure REQUEST_ERROR and any other exception UNKNOWN_ERROR; no
\* exception of another class leaves the call.
C36_SerperFailuresAreSearchErrors ==
    (pc = "Searched" /\ result.kind = "raise") =>
        /\ result.class \in SearchErrorClasses
        /\ result.code = CodeByCause(dispatches[1].env)

====
